----------------------------- MODULE NwcProofs -----------------------------
(***************************************************************************)
(* The wallet connect service, for any connections, requests, tasks and    *)
(* limits: what handlers spend was allowed by the user, an invoice is paid *)
(* once at most, a request that has its answer is not paid for, nothing is *)
(* spent for a revoked connection, and a request is begun as new once.     *)
(* SpendInv of WalletProofs carries over: a handler is one more task.      *)
(***************************************************************************)
EXTENDS Nwc, WalletProofs

\* Places of a handler at which the wallet has its task.
InWallet == {"review", "asking", "allowed", "refused", "paying"}

\* The connection a request came over is in the table.
Known(r) == \E c \in conns : c.id = r.conn

\* The review a task has in hand is one that was recorded, for its account and payee.
HasReview(t) ==
    \E s \in issued : s.id = work[t].id /\ s.account = work[t].account /\ s.payee = work[t].payee

\* What the place of a handler says of the wallet's variables of its task.
HandlerOK(t) ==
    /\ job[t] = NoJob => pc[t] = "idle" \/ (work[t].window /\ pc[t] # "back")
    /\ job[t] # NoJob =>
          /\ Known(job[t].request)
          /\ job[t].at \notin InWallet => pc[t] = "idle"
          /\ job[t].at \in InWallet =>
                /\ pc[t] # "idle" /\ ~work[t].window
                /\ work[t].account = Conn(job[t].request).account
                /\ work[t].payee = job[t].request.payee
          /\ job[t].at = "review" =>
                /\ work[t].op = "review"
                /\ pc[t] = "back" /\ work[t].ok => HasReview(t)
          /\ job[t].at \in {"asking", "allowed", "refused"} => pc[t] = "back"
          /\ job[t].at = "paying" => work[t].op = "pay"
          /\ job[t].at \in {"asking", "allowed", "refused", "paying"} => HasReview(t)
          /\ job[t].at \in {"allowed", "paying"} => work[t].id \in consented
          /\ job[t].at = "paying" /\ gate = t => IsActive(job[t].request.conn)

HandlerInv ==
    /\ NwcTypeOK
    /\ \A c, d \in conns : c.id = d.id => c = d
    /\ \A t \in Tasks : HandlerOK(t)
    /\ \A p \in payments : ~p.window => p.id \in consented

Claimed(x) == \E c \in claims : c.account = x.account /\ c.payee = x.payee

\* Nothing has been paid for x by a handler.
Unpaid(x) == \A p \in payments : ~p.window => <<p.account, p.payee>> # <<x.account, x.payee>>

\* An invoice is claimed before it is paid, and by one handler.
ClaimInv ==
    /\ \A p \in payments : ~p.window => Claimed(p)
    /\ \A t \in Tasks : JobAt(t, "paying") /\ pc[t] \in {"take", "open", "prepare"} =>
          Claimed(work[t]) /\ Unpaid(work[t])
    /\ EachInvoicePaidOnce

\* Handlers past the head of handle have requests of their own, not answered yet.
AnswerInv ==
    /\ \A t, u \in Tasks :
          /\ job[t] # NoJob /\ job[u] # NoJob /\ job[t].at # "begin" /\ job[u].at # "begin"
          /\ job[t].request = job[u].request
          => t = u
    /\ \A t \in Tasks, x \in table :
          /\ job[t] # NoJob /\ job[t].at \notin {"begin", "finish", "publish"}
          /\ x.request = job[t].request
          => x.response = "null"

\* What was admitted is on record until it is too old to be delivered.
AdmittedInv ==
    /\ \A t \in Tasks : JobAt(t, "begin") =>
          Deadline(job[t].request) > now /\ job[t].request.at <= now + Skew
    /\ \A x \in table : x.request.at <= x.created + Skew
    /\ admitted \subseteq Requests
    /\ \A r \in admitted : (\E x \in table : x.request = r) \/ Deadline(r) <= now

ServiceInv == HandlerInv /\ ClaimInv /\ AnswerInv /\ AdmittedInv

LEMMA ServiceInitHolds == NwcInit => SpendInv /\ ServiceInv
  <1> SUFFICES ASSUME NwcInit PROVE SpendInv /\ ServiceInv
    OBVIOUS
  <1> USE WalletAssumption, NwcAssumption DEF NwcInit, WalletInit
  <1>1. SpendInv
    BY InitHolds
  <1>2. HandlerInv
    BY DEF HandlerInv, NwcTypeOK, HandlerOK
  <1>3. ClaimInv /\ AnswerInv /\ AdmittedInv
    BY DEF ClaimInv, AnswerInv, AdmittedInv, EachInvoicePaidOnce, JobAt
  <1> QED
    BY <1>1, <1>2, <1>3 DEF ServiceInv

-----------------------------------------------------------------------------
(* What a step of the wallet does to the task of a handler *)

\* Task t may be the one whose turn it is; nobody else is touched.
OwnStep(t) ==
    /\ pc \in [Tasks -> Labels] /\ work \in [Tasks -> Works \cup {NoWork}]
    /\ pc[t] \notin {"idle", "back"} /\ work[t] \in Works
    /\ gate \in {t, NoTask} /\ gate' \in {t, NoTask}
    /\ \A u \in Tasks \ {t} : pc'[u] = pc[u] /\ work'[u] = work[u]

\* A command of the window ends or goes on.
WindowOn(t) == pc'[t] = "idle" \/ (work'[t].window /\ pc'[t] # "back")

\* A handler's command keeps its account, and its payee and handle where they are its own.
HandlerOn(t) ==
    /\ pc'[t] # "idle" /\ ~work'[t].window
    /\ work'[t].op = work[t].op /\ work'[t].account = work[t].account
    /\ work[t].op = "review" => work'[t].payee = work[t].payee
    /\ work[t].op = "pay" =>
          /\ work'[t].id = work[t].id
          /\ HasReview(t) => work'[t].payee = work[t].payee
          /\ pc'[t] \in {"take", "open", "prepare"} /\ pc[t] # "gate" => pc[t] \in {"take", "open"}
    /\ work[t].op = "review" /\ pc'[t] = "back" /\ work'[t].ok => HasReview(t)'

\* A payment with the variables of t.
Pay(t) ==
    /\ pc[t] = "prepare" /\ gate = t /\ pc'[t] = "confirm" /\ work'[t] = work[t] /\ issued' = issued
    /\ \E p : /\ payments' = payments \cup {p}
              /\ p.id = work[t].id /\ p.window = work[t].window
              /\ p.account = work[t].account /\ p.payee = work[t].payee

WalletGoes(t) ==
    /\ OwnStep(t)
    /\ issued \subseteq issued'
    /\ work[t].window => WindowOn(t)
    /\ ~work[t].window => HandlerOn(t)
    /\ payments' = payments \/ Pay(t)

LEMMA LeaveGoes ==
    ASSUME SpendInv, NEW t \in Tasks, gate = t, NEW ok \in BOOLEAN, Leave(t, ok),
           ok => work[t].op # "review", UNCHANGED <<issued, payments>>
    PROVE  WalletGoes(t)
  <1>1. /\ work[t] \in Works /\ pc[t] \notin {"idle", "back"}
        /\ pc \in [Tasks -> Labels] /\ work \in [Tasks -> Works \cup {NoWork}]
    BY DEF SpendInv, TaskInv, Placed, GatedLabels, WalletTypeOK
  <1>2. OwnStep(t)
    BY <1>1 DEF OwnStep, Leave
  <1>3. CASE work[t].window
    BY <1>1, <1>2, <1>3 DEF WalletGoes, Leave, WindowOn
  <1>4. CASE ~work[t].window
    <2>1. pc'[t] = "back" /\ work'[t] = [work[t] EXCEPT !.ok = ok]
      BY <1>1, <1>4 DEF Leave
    <2>2. /\ work'[t].op = work[t].op /\ work'[t].account = work[t].account
          /\ work'[t].payee = work[t].payee /\ work'[t].id = work[t].id
          /\ work'[t].window = work[t].window /\ work'[t].ok = ok
      BY <1>1, <2>1 DEF Works
    <2>3. HandlerOn(t)
      BY <1>4, <2>1, <2>2 DEF HandlerOn
    <2> QED
      BY <1>2, <1>4, <2>3 DEF WalletGoes
  <1> QED
    BY <1>3, <1>4

\* Still behind the gate, with nothing changed but what these let change.
LEMMA GoesOn ==
    ASSUME NEW t \in Tasks, OwnStep(t), pc'[t] \notin {"idle", "back"},
           UNCHANGED <<issued, payments>>,
           work'[t].window = work[t].window, work'[t].op = work[t].op,
           work'[t].account = work[t].account, work'[t].id = work[t].id,
           work[t].op = "review" => work'[t].payee = work[t].payee,
           work[t].op = "pay" /\ HasReview(t) => work'[t].payee = work[t].payee,
           work[t].op = "pay" /\ pc'[t] \in {"take", "open", "prepare"} /\ pc[t] # "gate" =>
               pc[t] \in {"take", "open"}
    PROVE  WalletGoes(t)
  <1>1. work[t].window => WindowOn(t)
    BY DEF WindowOn
  <1>2. ~work[t].window => HandlerOn(t)
    BY DEF HandlerOn
  <1> QED
    BY <1>1, <1>2 DEF WalletGoes

LEMMA AtGate ==
    ASSUME SpendInv, NEW t \in Tasks, pc[t] = "gate" \/ gate = t
    PROVE  /\ pc \in [Tasks -> Labels] /\ work \in [Tasks -> Works \cup {NoWork}]
           /\ work[t] \in Works /\ pc[t] \notin {"idle", "back"} /\ Placed(pc[t], work[t])
           /\ selected \in [Accounts -> Mints] /\ now \in Nat /\ epoch \in Nat
  BY DEF SpendInv, TaskInv, WalletTypeOK, Placed, GatedLabels

LEMMA EnterGoes ==
    ASSUME SpendInv, NEW t \in Tasks, EnterGate(t)
    PROVE  WalletGoes(t)
  <1>1. /\ pc \in [Tasks -> Labels] /\ work \in [Tasks -> Works \cup {NoWork}] /\ work[t] \in Works
        /\ pc[t] = "gate" /\ gate = NoTask /\ gate' = t /\ work[t].op \in Ops
        /\ UNCHANGED <<issued, payments>>
    BY AtGate DEF EnterGate, Works
  <1>2. \/ pc' = [pc EXCEPT ![t] = "open"] /\ work' = [work EXCEPT ![t].epoch = epoch, ![t].bumped = FALSE]
        \/ pc' = [pc EXCEPT ![t] = "take"] /\ work' = work
        \/ pc' = [pc EXCEPT ![t] = "open"] /\ work' = [work EXCEPT ![t].epoch = epoch']
    BY <1>1 DEF EnterGate, Goto, Ops
  <1>3. OwnStep(t)
    BY <1>1, <1>2 DEF OwnStep
  <1>4. /\ pc'[t] \in {"open", "take"}
        /\ work'[t].window = work[t].window /\ work'[t].op = work[t].op
        /\ work'[t].account = work[t].account /\ work'[t].id = work[t].id
        /\ work'[t].payee = work[t].payee
    BY <1>1, <1>2 DEF Works
  <1> QED
    BY <1>1, <1>3, <1>4, GoesOn

LEMMA OpenGoes ==
    ASSUME SpendInv, NEW t \in Tasks, Open(t)
    PROVE  WalletGoes(t)
  <1>1. /\ pc \in [Tasks -> Labels] /\ work \in [Tasks -> Works \cup {NoWork}] /\ work[t] \in Works
        /\ pc[t] = "open" /\ gate = t /\ UNCHANGED <<issued, payments>>
    BY AtGate DEF Open, Gated
  <1>2. CASE Leave(t, FALSE)
    BY <1>1, <1>2, LeaveGoes
  <1>3. CASE ~Leave(t, FALSE)
    <2>1. /\ gate' = t
          /\ pc' = [pc EXCEPT ![t] = CASE work[t].op = "review" -> "quote" [] work[t].op = "zap" -> "lookup"
                    [] work[t].op = "pay" -> "prepare" [] OTHER -> "select"]
          /\ work' = [work EXCEPT ![t].mint =
                         IF work[t].op \in {"review", "zap"} THEN selected[work[t].account] ELSE @]
      BY <1>1, <1>3 DEF Open
    <2>2. OwnStep(t)
      BY <1>1, <2>1 DEF OwnStep
    <2>3. pc'[t] \in {"quote", "lookup", "prepare", "select"}
      BY <1>1, <2>1
    <2>4. /\ work'[t].window = work[t].window /\ work'[t].op = work[t].op
          /\ work'[t].account = work[t].account /\ work'[t].id = work[t].id
          /\ work'[t].payee = work[t].payee
      BY <1>1, <2>1 DEF Works
    <2> QED
      BY <1>1, <2>2, <2>3, <2>4, GoesOn
  <1> QED
    BY <1>2, <1>3

LEMMA ReviewGoes ==
    ASSUME SpendInv, NEW t \in Tasks, Lookup(t) \/ Quote(t) \/ CheckSend(t)
    PROVE  WalletGoes(t)
  <1>1. /\ pc \in [Tasks -> Labels] /\ work \in [Tasks -> Works \cup {NoWork}] /\ work[t] \in Works
        /\ gate = t /\ UNCHANGED <<issued, payments>>
        /\ work[t].op \in {"review", "zap"}
        /\ pc[t] = "lookup" => work[t].op = "zap"
    BY AtGate DEF Lookup, Quote, CheckSend, Gated, Placed
  <1>2. CASE Leave(t, FALSE)
    BY <1>1, <1>2, LeaveGoes
  <1>3. CASE ~Leave(t, FALSE)
    <2>1. /\ gate' = t /\ \E l \in {"quote", "record", "insert"} : pc' = [pc EXCEPT ![t] = l]
      BY <1>1, <1>3 DEF Lookup, Quote, CheckSend, Goto
    <2>2. \/ \E i \in Invoices : work[t].op = "zap" /\ work' = [work EXCEPT ![t].payee = i]
          \/ \E maximum, expiry : work' = [work EXCEPT ![t].maximum = maximum, ![t].expiry = expiry]
          \/ work' = work
      <3>1. CASE Lookup(t)
        BY <1>1, <1>3, <3>1 DEF Lookup, Gated
      <3>2. CASE Quote(t)
        BY <1>3, <3>2 DEF Quote
      <3>3. CASE CheckSend(t)
        BY <1>3, <3>3 DEF CheckSend, Goto
      <3> QED
        BY <3>1, <3>2, <3>3
    <2>3. OwnStep(t) /\ pc'[t] \notin {"idle", "back"}
      BY <1>1, <2>1, <2>2, AtGate DEF OwnStep
    <2>4. /\ work'[t].window = work[t].window /\ work'[t].op = work[t].op
          /\ work'[t].account = work[t].account /\ work'[t].id = work[t].id
          /\ work[t].op = "review" => work'[t].payee = work[t].payee
      <3>1. ASSUME NEW i \in Invoices, work[t].op = "zap", work' = [work EXCEPT ![t].payee = i]
            PROVE  work'[t] = [work[t] EXCEPT !.payee = i]
        BY <1>1, <3>1
      <3>2. ASSUME NEW maximum, NEW expiry,
                   work' = [work EXCEPT ![t].maximum = maximum, ![t].expiry = expiry]
            PROVE  work'[t] = [work[t] EXCEPT !.maximum = maximum, !.expiry = expiry]
        BY <1>1, <3>2
      <3>3. \/ \E i \in Invoices : work[t].op = "zap" /\ work'[t] = [work[t] EXCEPT !.payee = i]
            \/ \E maximum, expiry :
                 work'[t] = [work[t] EXCEPT !.maximum = maximum, !.expiry = expiry]
            \/ work'[t] = work[t]
        <4>1. CASE \E i \in Invoices : work[t].op = "zap" /\ work' = [work EXCEPT ![t].payee = i]
          BY <3>1, <4>1
        <4>2. CASE \E maximum, expiry :
                     work' = [work EXCEPT ![t].maximum = maximum, ![t].expiry = expiry]
          <5>1. PICK maximum, expiry :
                  work' = [work EXCEPT ![t].maximum = maximum, ![t].expiry = expiry]
            BY <4>2
          <5>2. work'[t] = [work[t] EXCEPT !.maximum = maximum, !.expiry = expiry]
            BY <3>2, <5>1
          <5> QED
            BY <5>2
        <4> QED
          BY <2>2, <4>1, <4>2
      <3>4. CASE \E i \in Invoices : work[t].op = "zap" /\ work'[t] = [work[t] EXCEPT !.payee = i]
        BY <1>1, <3>4 DEF Works
      <3>5. CASE \E maximum, expiry :
                   work'[t] = [work[t] EXCEPT !.maximum = maximum, !.expiry = expiry]
        BY <1>1, <3>5 DEF Works
      <3> QED
        BY <3>3, <3>4, <3>5
    <2> QED
      BY <1>1, <2>3, <2>4, GoesOn
  <1> QED
    BY <1>2, <1>3

LEMMA InsertGoes ==
    ASSUME SpendInv, NEW t \in Tasks, gate = t, NEW rows, NEW expiry, Insert(t, rows, expiry),
           UNCHANGED payments, work[t].op # "pay"
    PROVE  WalletGoes(t)
  <1> DEFINE w == work[t]
  <1>1. PICK i \in Handles \ {r.id : r \in issued} :
          /\ issued' = issued \cup {Row(w, i, expiry)} /\ gate' = NoTask
          /\ pc' = [pc EXCEPT ![t] = IF w.window THEN "idle" ELSE "back"]
          /\ work' = [work EXCEPT ![t] = IF w.window THEN NoWork ELSE [@ EXCEPT !.id = i, !.ok = TRUE]]
    BY DEF Insert
  <1>2. /\ pc \in [Tasks -> Labels] /\ work \in [Tasks -> Works \cup {NoWork}] /\ w \in Works
        /\ pc[t] \notin {"idle", "back"}
    BY AtGate
  <1>3. OwnStep(t) /\ issued \subseteq issued'
    BY <1>1, <1>2 DEF OwnStep
  <1>4. CASE w.window
    BY <1>1, <1>2, <1>3, <1>4 DEF WalletGoes, WindowOn
  <1>5. CASE ~w.window
    <2>1. pc'[t] = "back" /\ work'[t] = [w EXCEPT !.id = i, !.ok = TRUE]
      BY <1>1, <1>2, <1>5
    <2>2. /\ work'[t].op = w.op /\ work'[t].account = w.account /\ work'[t].payee = w.payee
          /\ work'[t].id = i /\ work'[t].window = w.window
      BY <1>2, <2>1 DEF Works
    <2>3. Row(w, i, expiry).id = i /\ Row(w, i, expiry).account = w.account /\ Row(w, i, expiry).payee = w.payee
      BY DEF Row
    <2>4. HasReview(t)'
      BY <1>1, <2>2, <2>3 DEF HasReview
    <2>5. HandlerOn(t)
      BY <1>5, <2>1, <2>2, <2>4 DEF HandlerOn
    <2> QED
      BY <1>3, <1>5, <2>5 DEF WalletGoes
  <1> QED
    BY <1>4, <1>5

LEMMA RecordGoes ==
    ASSUME SpendInv, NEW t \in Tasks, RecordReview(t) \/ InsertSend(t)
    PROVE  WalletGoes(t)
  <1>1. gate = t /\ UNCHANGED payments /\ work[t].op # "pay"
    BY AtGate DEF RecordReview, InsertSend, Gated, Placed
  <1>2. CASE Leave(t, FALSE) /\ UNCHANGED issued
    BY <1>1, <1>2, LeaveGoes
  <1>3. CASE ~(Leave(t, FALSE) /\ UNCHANGED issued)
    <2>1. \E rows, expiry : Insert(t, rows, expiry)
      BY <1>3 DEF RecordReview, InsertSend
    <2> QED
      BY <1>1, <2>1, InsertGoes
  <1> QED
    BY <1>2, <1>3

\* The row taken is the one the handler had shown: handles are unique among the issued.
LEMMA TakeGoes ==
    ASSUME SpendInv, NEW t \in Tasks, Take(t)
    PROVE  WalletGoes(t)
  <1>1. /\ pc \in [Tasks -> Labels] /\ work \in [Tasks -> Works \cup {NoWork}] /\ work[t] \in Works
        /\ pc[t] = "take" /\ gate = t /\ work[t].op = "pay" /\ UNCHANGED <<issued, payments>>
    BY AtGate DEF Take, Gated, Placed
  <1>2. CASE Leave(t, FALSE)
    BY <1>1, <1>2, LeaveGoes
  <1>3. CASE ~Leave(t, FALSE)
    <2>1. PICK r \in approvals :
            /\ r.id = work[t].id /\ r.account = work[t].account
            /\ pc' = [pc EXCEPT ![t] = "open"] /\ gate' = gate
            /\ work' = [work EXCEPT ![t] =
                  [@ EXCEPT !.payee = r.payee, !.mint = r.mint, !.maximum = r.maximum,
                            !.expiry = r.expiry, !.epoch = r.epoch, !.bumped = r.bumped]]
      BY <1>3 DEF Take
    <2>2. OwnStep(t) /\ pc'[t] = "open"
      BY <1>1, <2>1 DEF OwnStep
    <2>3. /\ work'[t].window = work[t].window /\ work'[t].op = work[t].op
          /\ work'[t].account = work[t].account /\ work'[t].id = work[t].id
          /\ work'[t].payee = r.payee
      BY <1>1, <2>1 DEF Works
    <2>4. HasReview(t) => r.payee = work[t].payee
      BY <2>1 DEF HasReview, SpendInv, MatchInv, OnceInv, Covers
    <2> QED
      BY <1>1, <2>2, <2>3, <2>4, GoesOn
  <1> QED
    BY <1>2, <1>3

LEMMA PayGoes ==
    ASSUME SpendInv, NEW t \in Tasks, Prepare(t) \/ Confirm(t) \/ SelectMint(t)
    PROVE  WalletGoes(t)
  <1>1. /\ pc \in [Tasks -> Labels] /\ work \in [Tasks -> Works \cup {NoWork}] /\ work[t] \in Works
        /\ pc[t] \notin {"idle", "back"} /\ gate = t /\ work[t].op # "review" /\ UNCHANGED issued
    BY AtGate DEF Prepare, Confirm, SelectMint, Gated, Placed
  <1>2. CASE \E ok \in BOOLEAN : Leave(t, ok) /\ UNCHANGED payments
    BY <1>1, <1>2, LeaveGoes
  <1>3. CASE ~\E ok \in BOOLEAN : Leave(t, ok) /\ UNCHANGED payments
    <2>1. Prepare(t)
      BY <1>3 DEF Confirm, SelectMint
    <2>2. /\ pc[t] = "prepare" /\ pc' = [pc EXCEPT ![t] = "confirm"] /\ work' = work /\ gate' = gate
          /\ \E total \in Amounts : payments' = payments \cup
                {[n |-> Cardinality(payments) + 1, id |-> work[t].id,
                  window |-> work[t].window, account |-> work[t].account, payee |-> work[t].payee,
                  mint |-> work[t].mint, total |-> total, at |-> now, bumped |-> work[t].bumped]}
      BY <1>3, <2>1 DEF Prepare, Gated, Goto
    <2>3. OwnStep(t) /\ pc'[t] = "confirm" /\ work'[t] = work[t]
      BY <1>1, <2>2 DEF OwnStep
    <2>4. \E p : /\ payments' = payments \cup {p}
                 /\ p.id = work[t].id /\ p.window = work[t].window
                 /\ p.account = work[t].account /\ p.payee = work[t].payee
      <3>1. PICK total \in Amounts : payments' = payments \cup
              {[n |-> Cardinality(payments) + 1, id |-> work[t].id,
                window |-> work[t].window, account |-> work[t].account, payee |-> work[t].payee,
                mint |-> work[t].mint, total |-> total, at |-> now, bumped |-> work[t].bumped]}
        BY <2>2
      <3> DEFINE p == [n |-> Cardinality(payments) + 1, id |-> work[t].id,
                window |-> work[t].window, account |-> work[t].account, payee |-> work[t].payee,
                mint |-> work[t].mint, total |-> total, at |-> now, bumped |-> work[t].bumped]
      <3>2. /\ p.id = work[t].id /\ p.window = work[t].window
            /\ p.account = work[t].account /\ p.payee = work[t].payee
        OBVIOUS
      <3>3. payments' = payments \cup {p}
        BY <3>1
      <3> HIDE DEF p
      <3> QED
        BY <3>2, <3>3
    <2>5. Pay(t)
      BY <1>1, <2>2, <2>3, <2>4 DEF Pay
    <2>6. work[t].window => WindowOn(t)
      BY <2>3 DEF WindowOn
    <2>7. ~work[t].window => HandlerOn(t)
      BY <1>1, <2>3 DEF HandlerOn
    <2> QED
      BY <1>1, <2>3, <2>5, <2>6, <2>7 DEF WalletGoes
  <1> QED
    BY <1>2, <1>3

LEMMA TaskGoes ==
    ASSUME SpendInv, NEW t \in Tasks, EnterGate(t) \/ TaskStep(t)
    PROVE  WalletGoes(t)
  BY EnterGoes, OpenGoes, ReviewGoes, RecordGoes, TakeGoes, PayGoes DEF TaskStep

-----------------------------------------------------------------------------
(* The service's invariants over a step of the wallet *)

\* The step leaves task u as it is, or changes nothing of it that its handler has.
SameTask(u) ==
    /\ pc'[u] = pc[u]
    /\ work'[u].window = work[u].window /\ work'[u].op = work[u].op /\ work'[u].ok = work[u].ok
    /\ work'[u].account = work[u].account /\ work'[u].payee = work[u].payee
    /\ work'[u].id = work[u].id

LEMMA HandlerSame ==
    ASSUME NEW u \in Tasks, HandlerOK(u), SameTask(u), issued \subseteq issued',
           UNCHANGED <<conns, revoked>>, job'[u] = job[u], consented \subseteq consented',
           gate' = u => gate = u
    PROVE  HandlerOK(u)'
  <1>1. Known(job[u].request)' = Known(job[u].request) /\ Conn(job[u].request)' = Conn(job[u].request)
    BY DEF Known, Conn
  <1>2. HasReview(u) => HasReview(u)'
    BY DEF HasReview, SameTask
  <1>3. IsActive(job[u].request.conn)' = IsActive(job[u].request.conn)
    BY DEF IsActive
  <1> QED
    BY <1>1, <1>2, <1>3 DEF HandlerOK, SameTask

LEMMA HandlerGoes ==
    ASSUME SpendInv, NEW t \in Tasks, HandlerOK(t), WalletGoes(t), t # NoTask,
           job[t] \in Jobs \cup {NoJob},
           JobAt(t, "paying") => gate = t,
           UNCHANGED <<conns, revoked, job, consented>>
    PROVE  HandlerOK(t)'
  <1>1. CASE job[t] = NoJob
    BY <1>1 DEF HandlerOK, WalletGoes, OwnStep, WindowOn
  <1>2. CASE job[t] # NoJob
    <2>1. job[t].at \in {"review", "paying"} /\ ~work[t].window /\ HandlerOn(t)
      BY <1>2 DEF HandlerOK, WalletGoes, OwnStep, InWallet
    <2>2. Known(job[t].request)' = Known(job[t].request) /\ Conn(job[t].request)' = Conn(job[t].request)
      BY DEF Known, Conn
    <2>3. IsActive(job[t].request.conn)' = IsActive(job[t].request.conn)
      BY DEF IsActive
    <2>4. CASE job[t].at = "review"
      BY <1>2, <2>1, <2>2, <2>4 DEF HandlerOK, HandlerOn, InWallet
    <2>5. CASE job[t].at = "paying"
      <3>1. work[t].op = "pay" /\ HasReview(t) /\ work[t].id \in consented
        BY <1>2, <2>5 DEF HandlerOK
      <3>2. work'[t].payee = work[t].payee /\ work'[t].id = work[t].id
        BY <2>1, <3>1 DEF HandlerOn
      <3>3. HasReview(t)'
        BY <2>1, <3>1, <3>2 DEF HasReview, HandlerOn, WalletGoes
      <3>4. IsActive(job[t].request.conn)
        BY <1>2, <2>5 DEF HandlerOK, JobAt
      <3> QED
        BY <1>2, <2>1, <2>2, <2>3, <2>5, <3>1, <3>2, <3>3, <3>4 DEF HandlerOK, HandlerOn, InWallet
    <2> QED
      BY <2>1, <2>4, <2>5
  <1> QED
    BY <1>1, <1>2

\* What t pays is its handler's, allowed and claimed.
LEMMA PayIsClaimed ==
    ASSUME SpendInv, HandlerInv, ClaimInv, NEW t \in Tasks, Pay(t), ~work[t].window
    PROVE  /\ JobAt(t, "paying") /\ work[t].id \in consented
           /\ Claimed(work[t]) /\ Unpaid(work[t])
  <1>1. pc[t] = "prepare" /\ work[t].op = "pay" /\ HandlerOK(t)
    BY DEF Pay, SpendInv, TaskInv, Placed, HandlerInv
  <1>2. JobAt(t, "paying")
    BY <1>1 DEF HandlerOK, JobAt, InWallet
  <1> QED
    BY <1>1, <1>2 DEF HandlerOK, ClaimInv, JobAt

LEMMA SameTables ==
    ASSUME ServiceInv, UNCHANGED nwcVars, now' \in Nat, now \in Nat, now <= now',
           now' # now => \A t \in Tasks : ~JobAt(t, "begin")
    PROVE  AnswerInv' /\ AdmittedInv' /\ NwcTypeOK'
  <1> USE DEF nwcVars, ServiceInv
  <1>1. AnswerInv'
    BY DEF AnswerInv
  <1>2. NwcTypeOK'
    BY DEF HandlerInv, NwcTypeOK
  <1>3. \A r \in Requests : Deadline(r) \in Nat
    BY NwcAssumption DEF Deadline, RequestEvents
  <1>4. AdmittedInv'
    <2>1. \A t \in Tasks : JobAt(t, "begin")' =>
             Deadline(job[t].request) > now' /\ job[t].request.at <= now' + Skew
      BY DEF AdmittedInv, JobAt
    <2>2. \A r \in admitted : r \in Requests
      BY DEF AdmittedInv
    <2>3. \A r \in admitted : (\E x \in table : x.request = r) \/ Deadline(r) <= now'
      BY <1>3, <2>2 DEF AdmittedInv
    <2> QED
      BY <2>1, <2>2, <2>3 DEF AdmittedInv, Deadline
  <1> QED
    BY <1>1, <1>2, <1>4

LEMMA TaskServes ==
    ASSUME SpendInv, ServiceInv, NEW t \in Tasks, (EnterGate(t) /\ ~JobAt(t, "paying")) \/ TaskStep(t),
           UNCHANGED nwcVars
    PROVE  ServiceInv'
  <1> USE WalletAssumption DEF ServiceInv
  <1>1. WalletGoes(t) /\ OwnStep(t) /\ issued \subseteq issued' /\ t # NoTask
    BY TaskGoes DEF WalletGoes
  <1>2. now' = now /\ now \in Nat
    BY DEF EnterGate, TaskStep, Open, Lookup, Quote, RecordReview, CheckSend, InsertSend, Take,
       Prepare, Confirm, SelectMint, SpendInv, TaskInv, WalletTypeOK
  <1>3. JobAt(t, "paying") => gate = t /\ pc[t] # "gate"
    BY DEF TaskStep, Open, Lookup, Quote, RecordReview, CheckSend, InsertSend, Take,
       Prepare, Confirm, SelectMint, Gated
  <1>4. AnswerInv' /\ AdmittedInv' /\ NwcTypeOK'
    BY <1>2, SameTables
  <1>5. \A u \in Tasks : HandlerOK(u)'
    <2>1. \A u \in Tasks : HandlerOK(u) /\ job[u] \in Jobs \cup {NoJob}
      BY DEF HandlerInv, NwcTypeOK
    <2>2. HandlerOK(t)'
      BY <1>1, <1>3, <2>1, HandlerGoes DEF nwcVars
    <2>3. ASSUME NEW u \in Tasks \ {t} PROVE HandlerOK(u)'
      <3>1. SameTask(u) /\ gate' # u
        BY <1>1 DEF OwnStep, SameTask
      <3> QED
        BY <1>1, <2>1, <3>1, HandlerSame DEF nwcVars
    <2> QED
      BY <2>2, <2>3
  <1>6. \A u \in Tasks \ {t} : pc'[u] \notin {"take", "open", "prepare"}
    BY <1>1 DEF OwnStep, SpendInv, TaskInv, GatedLabels
  <1>7. CASE payments' = payments
    <2>1. HandlerInv'
      BY <1>4, <1>5, <1>7 DEF HandlerInv, nwcVars
    <2>2. JobAt(t, "paying") /\ pc'[t] \in {"take", "open", "prepare"} =>
             /\ pc[t] \in {"take", "open"}
             /\ work'[t].account = work[t].account /\ work'[t].payee = work[t].payee
      <3>1. JobAt(t, "paying") => ~work[t].window /\ work[t].op = "pay" /\ HasReview(t)
        BY DEF HandlerInv, HandlerOK, JobAt, InWallet
      <3> QED
        BY <1>1, <1>3, <3>1 DEF WalletGoes, HandlerOn
    <2>3. ClaimInv'
      BY <1>6, <1>7, <2>2 DEF ClaimInv, Claimed, Unpaid, EachInvoicePaidOnce, JobAt, nwcVars
    <2> QED
      BY <1>4, <2>1, <2>3
  <1>8. CASE Pay(t)
    <2>1. PICK p : /\ payments' = payments \cup {p}
                   /\ p.id = work[t].id /\ p.window = work[t].window
                   /\ p.account = work[t].account /\ p.payee = work[t].payee
      BY <1>8 DEF Pay
    <2>2. ~p.window => p.id \in consented /\ Claimed(p) /\ Unpaid(p)
      BY <1>8, <2>1, PayIsClaimed DEF Claimed, Unpaid
    <2>3. HandlerInv'
      BY <1>4, <1>5, <2>1, <2>2 DEF HandlerInv, nwcVars
    <2>4. pc'[t] = "confirm"
      BY <1>8 DEF Pay
    <2>5. EachInvoicePaidOnce'
      BY <2>1, <2>2 DEF Unpaid, EachInvoicePaidOnce, ClaimInv
    <2>6. ClaimInv'
      BY <1>6, <2>1, <2>2, <2>4, <2>5 DEF ClaimInv, Claimed, nwcVars
    <2> QED
      BY <1>4, <2>3, <2>6
  <1> QED
    BY <1>1, <1>7, <1>8 DEF WalletGoes

\* No task moves, in the eyes of its handler.
LEMMA AsideServes ==
    ASSUME ServiceInv, UNCHANGED nwcVars, UNCHANGED <<issued, payments, gate, pc>>,
           \A u \in Tasks : SameTask(u), now \in Nat, now' \in Nat, now <= now',
           now' # now => \A t \in Tasks : ~JobAt(t, "begin")
    PROVE  ServiceInv'
  <1> USE DEF ServiceInv, nwcVars
  <1>1. AnswerInv' /\ AdmittedInv' /\ NwcTypeOK'
    BY SameTables
  <1>2. \A u \in Tasks : HandlerOK(u)'
    BY HandlerSame DEF HandlerInv
  <1>3. HandlerInv'
    BY <1>1, <1>2 DEF HandlerInv
  <1>4. ClaimInv'
    BY DEF ClaimInv, Claimed, Unpaid, EachInvoicePaidOnce, JobAt, SameTask
  <1> QED
    BY <1>1, <1>3, <1>4

LEMMA WindowServes ==
    ASSUME SpendInv, ServiceInv, NEW t \in Tasks, job[t] = NoJob, WindowCommand(t), UNCHANGED nwcVars
    PROVE  ServiceInv'
  <1> USE DEF ServiceInv, nwcVars
  <1>1. UNCHANGED <<now, gate, issued, payments>>
    BY DEF WindowCommand, WindowReview, WindowZap, WindowPay, WindowSelect
  <1>2. /\ pc \in [Tasks -> Labels] /\ work \in [Tasks -> Works \cup {NoWork}] /\ now \in Nat
    BY DEF SpendInv, TaskInv, WalletTypeOK
  <1>3. \E w : Start(t, w) /\ w.window
    <2>1. CASE \E a \in Accounts, payee \in Payees : WindowReview(t, a, payee)
      BY <2>1 DEF WindowReview
    <2>2. CASE \E a \in Accounts : WindowZap(t, a)
      BY <2>2 DEF WindowZap
    <2>3. CASE \E a \in Accounts, r \in Shown : WindowPay(t, a, r)
      BY <2>3 DEF WindowPay
    <2>4. CASE \E a \in Accounts, m \in Mints, op \in {"setmint", "select"} : WindowSelect(t, a, m, op)
      BY <2>4 DEF WindowSelect
    <2> QED
      BY <2>1, <2>2, <2>3, <2>4 DEF WindowCommand
  <1>4. /\ pc'[t] = "gate" /\ work'[t].window
        /\ \A u \in Tasks \ {t} : pc'[u] = pc[u] /\ work'[u] = work[u]
    BY <1>2, <1>3 DEF Start
  <1>5. AnswerInv' /\ AdmittedInv' /\ NwcTypeOK'
    BY <1>1, <1>2, SameTables
  <1>6. \A u \in Tasks : HandlerOK(u)'
    <2>1. HandlerOK(t)'
      BY <1>4 DEF HandlerOK
    <2>2. \A u \in Tasks \ {t} : HandlerOK(u)'
      BY <1>1, <1>4, HandlerSame DEF HandlerInv, SameTask
    <2> QED
      BY <2>1, <2>2
  <1>7. HandlerInv'
    BY <1>1, <1>5, <1>6 DEF HandlerInv
  <1>8. ClaimInv'
    BY <1>1, <1>4 DEF ClaimInv, Claimed, Unpaid, EachInvoicePaidOnce, JobAt
  <1> QED
    BY <1>5, <1>7, <1>8

LEMMA WalletPartKeeps ==
    ASSUME SpendInv, ServiceInv, WalletPart
    PROVE  SpendInv' /\ ServiceInv'
  <1>0. UNCHANGED nwcVars
    BY DEF WalletPart
  <1>1. SpendInv'
    <2>1. WalletNext
      BY DEF WalletPart, WalletNext, NwcTick
    <2> QED
      BY <2>1, NextKeeps
  <1>2. now \in Nat /\ work \in [Tasks -> Works \cup {NoWork}]
    BY DEF SpendInv, TaskInv, WalletTypeOK
  <1>3. CASE \E t \in Tasks : (~JobAt(t, "paying") /\ EnterGate(t)) \/ TaskStep(t)
    BY <1>0, <1>1, <1>3, TaskServes
  <1>4. CASE \E t \in Tasks : job[t] = NoJob /\ WindowCommand(t)
    BY <1>0, <1>1, <1>4, WindowServes
  <1>5. CASE LockBegins
    <2>1. ASSUME NEW u \in Tasks PROVE SameTask(u)
      <3>1. CASE work[u] = NoWork
        BY <1>5, <3>1 DEF LockBegins, SameTask
      <3>2. CASE work[u] # NoWork
        <4>1. work[u] \in Works /\ work'[u] = [work[u] EXCEPT !.bumped = TRUE] /\ pc' = pc
          BY <1>2, <1>5, <3>2 DEF LockBegins
        <4> QED
          BY <4>1 DEF SameTask, Works
      <3> QED
        BY <3>1, <3>2
    <2>2. UNCHANGED <<issued, payments, gate, pc, now>>
      BY <1>5 DEF LockBegins
    <2> QED
      BY <1>0, <1>1, <1>2, <2>1, <2>2, AsideServes
  <1>6. CASE LockClears \/ LockEnds \/ NwcTick \/ \E a \in Accounts : Cancel(a) \/ UnlockAccount(a)
    <2>1. UNCHANGED <<issued, payments, gate, pc, work>>
      BY <1>6 DEF LockClears, LockEnds, NwcTick, Tick, Cancel, UnlockAccount
    <2>2. now' = now \/ (now' = now + 1 /\ \A t \in Tasks : ~JobAt(t, "begin"))
      BY <1>6 DEF LockClears, LockEnds, NwcTick, Tick, Cancel, UnlockAccount
    <2>3. \A u \in Tasks : SameTask(u)
      BY <2>1 DEF SameTask
    <2> QED
      BY <1>0, <1>1, <1>2, <2>1, <2>2, <2>3, AsideServes
  <1> QED
    BY <1>1, <1>3, <1>4, <1>5, <1>6 DEF WalletPart, LockCommand

LEMMA RestartKeeps ==
    ASSUME SpendInv, ServiceInv, NwcRestart
    PROVE  SpendInv' /\ ServiceInv'
  <1> USE DEF NwcRestart
  <1>1. SpendInv'
    BY NextKeeps DEF WalletNext
  <1>2. /\ job' = [t \in Tasks |-> NoJob] /\ pc' = [t \in Tasks |-> "idle"]
        /\ UNCHANGED <<now, issued, payments, conns, revoked, table, claims, admitted, consented>>
    BY DEF Restart
  <1>3. HandlerInv'
    BY <1>2 DEF ServiceInv, HandlerInv, NwcTypeOK, HandlerOK
  <1>4. ClaimInv' /\ AnswerInv'
    BY <1>2 DEF ServiceInv, ClaimInv, AnswerInv, Claimed, EachInvoicePaidOnce, JobAt
  <1>5. AdmittedInv'
    BY <1>2 DEF ServiceInv, AdmittedInv, Deadline, JobAt
  <1> QED
    BY <1>1, <1>3, <1>4, <1>5 DEF ServiceInv

-----------------------------------------------------------------------------
(* A step of a handler *)

\* The handler of t is then at label, with the request it had.
Onward(t, label) ==
    /\ job' \in [Tasks -> Jobs \cup {NoJob}]
    /\ job'[t] # NoJob /\ job'[t].at = label /\ job'[t].request = job[t].request
    /\ \A u \in Tasks \ {t} : job'[u] = job[u]

Ended(t) ==
    /\ job' \in [Tasks -> Jobs \cup {NoJob}] /\ job'[t] = NoJob
    /\ \A u \in Tasks \ {t} : job'[u] = job[u]

LEMMA JobOnward ==
    ASSUME NwcTypeOK, NEW t \in Tasks, job[t] # NoJob, NEW label \in JobLabels, JobGoes(t, label)
    PROVE  Onward(t, label)
  <1>1. job[t] \in Jobs /\ job \in [Tasks -> Jobs \cup {NoJob}]
    BY DEF NwcTypeOK
  <1>2. [job[t] EXCEPT !.at = label] \in Jobs
    BY <1>1 DEF Jobs
  <1>3. job' = [job EXCEPT ![t] = [job[t] EXCEPT !.at = label]]
    BY DEF JobGoes
  <1>4. [job[t] EXCEPT !.at = label].at = label /\ [job[t] EXCEPT !.at = label].request = job[t].request
    BY <1>1 DEF Jobs
  <1> QED
    BY <1>1, <1>2, <1>3, <1>4, NwcAssumption DEF Onward

LEMMA JobOver ==
    ASSUME NwcTypeOK, NEW t \in Tasks, JobEnds(t)
    PROVE  Ended(t)
  BY DEF NwcTypeOK, JobEnds, Ended

\* The handler goes on with its request, and no further back than it was.
Advances(t) ==
    \/ Ended(t)
    \/ /\ job[t] # NoJob /\ job[t].at # "begin"
       /\ \E label \in JobLabels \ {"begin"} :
             /\ Onward(t, label)
             /\ job[t].at \in {"finish", "publish"} => label \in {"finish", "publish"}

LEMMA SameRequests ==
    ASSUME ServiceInv, NEW t \in Tasks, UNCHANGED <<table, admitted, now>>, Advances(t)
    PROVE  AnswerInv' /\ AdmittedInv'
  <1> USE DEF ServiceInv, Advances
  <1>1. AnswerInv'
    <2>1. CASE Ended(t)
      BY <2>1 DEF AnswerInv, Ended
    <2>2. CASE ~Ended(t)
      BY <2>2 DEF AnswerInv, Onward
    <2> QED
      BY <2>1, <2>2
  <1>2. \A u \in Tasks : JobAt(u, "begin")' => JobAt(u, "begin") /\ job'[u] = job[u]
    BY DEF JobAt, Ended, Onward
  <1>3. AdmittedInv'
    BY <1>2 DEF AdmittedInv, Deadline
  <1> QED
    BY <1>1, <1>3

\* The other tasks are where they were.
Alone(t) ==
    /\ \A u \in Tasks \ {t} : job'[u] = job[u] /\ pc'[u] = pc[u] /\ work'[u] = work[u]
    /\ \A u \in Tasks \ {t} : gate' = u => gate = u

LEMMA HandlerServes ==
    ASSUME ServiceInv, NEW t \in Tasks, UNCHANGED <<conns, revoked, issued, payments>>, Alone(t),
           claims \subseteq claims', consented \subseteq consented',
           NwcTypeOK', HandlerOK(t)', AnswerInv', AdmittedInv',
           JobAt(t, "paying")' /\ pc'[t] \in {"take", "open", "prepare"} =>
               Claimed(work[t])' /\ Unpaid(work[t])'
    PROVE  ServiceInv'
  <1> USE DEF ServiceInv
  <1>1. \A u \in Tasks : HandlerOK(u)'
    <2>1. \A u \in Tasks \ {t} : HandlerOK(u)'
      BY HandlerSame DEF HandlerInv, Alone, SameTask
    <2> QED
      BY <2>1
  <1>2. HandlerInv'
    BY <1>1 DEF HandlerInv
  <1>3. \A x : Claimed(x) => Claimed(x)'
    BY DEF Claimed
  <1>4. ASSUME NEW u \in Tasks, JobAt(u, "paying")', pc'[u] \in {"take", "open", "prepare"}
        PROVE  Claimed(work[u])' /\ Unpaid(work[u])'
    <2>1. CASE u = t
      BY <1>4, <2>1
    <2>2. CASE u # t
      BY <1>3, <1>4, <2>2 DEF ClaimInv, Alone, JobAt, Claimed, Unpaid
    <2> QED
      BY <2>1, <2>2
  <1>5. ClaimInv'
    BY <1>3, <1>4 DEF ClaimInv, EachInvoicePaidOnce, Claimed
  <1> QED
    BY <1>2, <1>5

\* The connection of a request is the one row with its id.
LEMMA ConnRow ==
    ASSUME HandlerInv, NEW r, Known(r)
    PROVE  /\ Conn(r) \in conns /\ Conn(r).id = r.conn
           /\ Conn(r).account \in Accounts /\ Conn(r).mint \in Mints
  <1>1. Conn(r) \in conns /\ Conn(r).id = r.conn
    BY DEF Known, Conn
  <1> QED
    BY <1>1 DEF HandlerInv, NwcTypeOK

\* Steps that leave the wallet and the tables alone.
LEMMA QuietSteps ==
    ASSUME SpendInv, ServiceInv, NEW t \in Tasks, AwaitKeys(t) \/ Publish(t)
    PROVE  SpendInv' /\ ServiceInv'
  <1> USE DEF ServiceInv, HandlerInv
  <1>1. /\ job[t] # NoJob /\ job[t].at \in {"locked", "publish"}
        /\ UNCHANGED <<walletVars, conns, revoked, table, claims, admitted, consented>>
        /\ JobEnds(t) \/ (JobGoes(t, "run") /\ job[t].at = "locked")
    BY DEF AwaitKeys, Publish, JobAt
  <1>2. /\ UNCHANGED walletVars
        /\ UNCHANGED <<now, gate, pc, work, issued, payments>>
    BY <1>1 DEF walletVars
  <1>3. SpendInv'
    BY <1>2, NextKeeps
  <1>4. Ended(t) \/ (Onward(t, "run") /\ job[t].at = "locked")
    BY <1>1, JobOver, JobOnward DEF JobLabels
  <1>5. AnswerInv' /\ AdmittedInv'
    BY <1>1, <1>2, <1>4, SameRequests DEF Advances, JobLabels
  <1>6. NwcTypeOK'
    BY <1>1, <1>4 DEF NwcTypeOK, Ended, Onward
  <1>7. HandlerOK(t)'
    <2>1. HandlerOK(t) /\ pc[t] = "idle" /\ Known(job[t].request)
      BY <1>1 DEF HandlerOK, InWallet
    <2> QED
      BY <1>1, <1>2, <1>4, <2>1 DEF HandlerOK, Ended, Onward, InWallet, Known
  <1>8. Alone(t) /\ ~JobAt(t, "paying")'
    BY <1>2, <1>4 DEF Alone, Ended, Onward, JobAt
  <1> QED
    BY <1>1, <1>2, <1>3, <1>5, <1>6, <1>7, <1>8, HandlerServes

\* A handler that the wallet has done with, or never got to: it has a result.
LEMMA ResumeKeeps ==
    ASSUME SpendInv, ServiceInv, NEW t \in Tasks, job[t] # NoJob, job[t].at \in InWallet,
           pc[t] \notin GatedLabels, Resume(t), JobGoes(t, "finish"), approvals' \subseteq approvals,
           UNCHANGED <<now, held, selected, epoch, gate, locking, issued, payments>>,
           UNCHANGED <<conns, revoked, table, claims, admitted, consented>>
    PROVE  SpendInv' /\ ServiceInv'
  <1>1. /\ pc \in [Tasks -> Labels] /\ work \in [Tasks -> Works \cup {NoWork}] /\ gate # t
        /\ selected \in [Accounts -> Mints] /\ now \in Nat
    BY DEF SpendInv, TaskInv, WalletTypeOK
  <1>2. SpendInv'
    <2>1. Moves(t, "idle", NoWork) /\ Placed("idle", NoWork) /\ "idle" \notin GatedLabels
      BY NotWork DEF Resume, Moves, Placed, Labels, Pays, GatedLabels
    <2>2. Still
      BY <1>1, StillFrom
    <2> QED
      BY <1>1, <2>1, <2>2, OutsideMoves
  <1>3. NwcTypeOK /\ HandlerOK(t)
    BY DEF ServiceInv, HandlerInv
  <1>4. Onward(t, "finish")
    BY <1>3, JobOnward DEF JobLabels
  <1>5. AnswerInv' /\ AdmittedInv'
    BY <1>4, SameRequests DEF Advances, JobLabels, InWallet
  <1>6. NwcTypeOK'
    BY <1>3, <1>4 DEF NwcTypeOK, Onward
  <1>7. pc'[t] = "idle" /\ Known(job[t].request) /\ Alone(t)
    BY <1>1, <1>3, <1>4 DEF Resume, HandlerOK, Alone, Onward
  <1>8. HandlerOK(t)' /\ ~JobAt(t, "paying")'
    BY <1>4, <1>7 DEF HandlerOK, Onward, InWallet, Known, JobAt
  <1> QED
    BY <1>2, <1>5, <1>6, <1>7, <1>8, HandlerServes

LEMMA ResultKeeps ==
    ASSUME SpendInv, ServiceInv, NEW t \in Tasks, Result(t) \/ NotApproved(t)
    PROVE  SpendInv' /\ ServiceInv'
  <1>1. /\ job[t] # NoJob /\ job[t].at \in InWallet /\ Resume(t) /\ JobGoes(t, "finish")
        /\ UNCHANGED <<now, held, selected, epoch, gate, locking, issued, payments>>
        /\ UNCHANGED <<conns, revoked, table, claims, admitted, consented>>
    BY DEF Result, NotApproved, JobAt, InWallet
  <1>2. approvals' \subseteq approvals
    BY DEF Result, NotApproved, CancelReview
  <1>3. pc[t] = "back"
    BY DEF Result, NotApproved, JobAt, ServiceInv, HandlerInv, HandlerOK
  <1>4. pc[t] \notin GatedLabels
    BY <1>3 DEF GatedLabels
  <1> QED
    BY <1>1, <1>2, <1>4, ResumeKeeps

LEMMA ApprovedKeeps ==
    ASSUME SpendInv, ServiceInv, NEW t \in Tasks, Approved(t)
    PROVE  SpendInv' /\ ServiceInv'
  <1>1. /\ job[t] # NoJob /\ job[t].at = "allowed" /\ JobGoes(t, "paying")
        /\ pc' = [pc EXCEPT ![t] = "gate"] /\ work' = [work EXCEPT ![t].op = "pay"]
        /\ UNCHANGED <<now, held, selected, epoch, approvals, gate, locking, issued, payments>>
        /\ UNCHANGED <<conns, revoked, table, claims, admitted, consented>>
    BY DEF Approved, JobAt
  <1>2. NwcTypeOK /\ HandlerOK(t)
    BY DEF ServiceInv, HandlerInv
  <1>3. pc[t] = "back" /\ ~work[t].window /\ HasReview(t)
    BY <1>1, <1>2 DEF HandlerOK, InWallet
  <1>4. /\ pc \in [Tasks -> Labels] /\ work \in [Tasks -> Works \cup {NoWork}] /\ work[t] \in Works
        /\ gate # t
    BY <1>3 DEF SpendInv, TaskInv, WalletTypeOK, Placed, GatedLabels
  <1> DEFINE w == [work[t] EXCEPT !.op = "pay"]
  <1>5. /\ w \in Works /\ w.op = "pay" /\ w.window = work[t].window /\ w.account = work[t].account
        /\ w.payee = work[t].payee /\ w.id = work[t].id
    BY <1>4 DEF Works, Ops
  <1>6. Moves(t, "gate", w) /\ pc'[t] = "gate" /\ work'[t] = w
    BY <1>1, <1>4 DEF Moves
  <1> HIDE DEF w
  <1>7. SpendInv'
    <2>1. Placed("gate", w) /\ "gate" \notin GatedLabels
      BY <1>5 DEF Placed, Labels, Pays, GatedLabels
    <2> QED
      BY <1>1, <1>4, <1>6, <2>1, StillAsWas, OutsideMoves
  <1>8. Onward(t, "paying") /\ NwcTypeOK'
    <2>1. Onward(t, "paying")
      BY <1>1, <1>2, JobOnward DEF JobLabels
    <2> QED
      BY <1>1, <1>2, <2>1 DEF NwcTypeOK, Onward
  <1>9. AnswerInv' /\ AdmittedInv'
    BY <1>1, <1>8, SameRequests DEF Advances, JobLabels
  <1>10. HandlerOK(t)'
    <2>1. HasReview(t)'
      BY <1>1, <1>3, <1>5, <1>6 DEF HasReview
    <2> QED
      BY <1>1, <1>2, <1>3, <1>4, <1>5, <1>6, <1>8, <2>1 DEF HandlerOK, Onward, InWallet, Known, Conn
  <1>11. Alone(t)
    BY <1>1, <1>4, <1>8 DEF Alone, Onward
  <1> QED
    BY <1>1, <1>6, <1>7, <1>8, <1>9, <1>10, <1>11, HandlerServes

\* The claim comes before the take: the invoice was free, so nothing was paid for it.
LEMMA ClaimKeeps ==
    ASSUME SpendInv, ServiceInv, NEW t \in Tasks, Claim(t)
    PROVE  SpendInv' /\ ServiceInv'
  <1> DEFINE r == job[t].request
  <1>1. /\ job[t] # NoJob /\ job[t].at = "paying" /\ pc[t] = "gate" /\ gate = NoTask
        /\ UNCHANGED <<now, held, selected, epoch, locking, issued, payments>>
        /\ UNCHANGED <<conns, revoked, table, admitted, consented>>
    BY DEF Claim, JobAt
  <1>2. NwcTypeOK /\ HandlerOK(t)
    BY DEF ServiceInv, HandlerInv
  <1>3. /\ Known(r) /\ work[t].op = "pay" /\ ~work[t].window /\ HasReview(t)
        /\ work[t].account = Conn(r).account /\ work[t].payee = r.payee /\ work[t].id \in consented
    BY <1>1, <1>2 DEF HandlerOK, InWallet
  <1>4. CASE CancelReview(work[t].id) /\ JobGoes(t, "finish") /\ Resume(t) /\ UNCHANGED <<claims, gate>>
    <2>1. approvals' \subseteq approvals /\ pc[t] \notin GatedLabels /\ job[t].at \in InWallet
      BY <1>1, <1>4 DEF CancelReview, GatedLabels, InWallet
    <2> QED
      BY <1>1, <1>4, <2>1, ResumeKeeps
  <1>5. CASE ~(CancelReview(work[t].id) /\ JobGoes(t, "finish") /\ Resume(t) /\ UNCHANGED <<claims, gate>>)
    <2> DEFINE c == [account |-> Conn(r).account, payee |-> r.payee, request |-> r]
    <2>1. /\ ~\E d \in claims : d.account = Conn(r).account /\ d.payee = r.payee
          /\ IsActive(r.conn) /\ claims' = claims \cup {c} /\ gate' = t /\ Goto(t, "take")
          /\ UNCHANGED <<approvals, job>>
      BY <1>5 DEF Claim, Permitted
    <2>2. /\ pc \in [Tasks -> Labels] /\ work \in [Tasks -> Works \cup {NoWork}] /\ work[t] \in Works
      BY <1>1, AtGate
    <2>3. Moves(t, "take", work[t]) /\ pc'[t] = "take" /\ work' = work
      BY <2>1, <2>2 DEF Goto, Moves
    <2>4. SpendInv'
      <3>1. Placed("take", work[t]) /\ Fits("take", work[t]) /\ "take" \in GatedLabels
        BY <1>3, <2>2 DEF Placed, Labels, Pays, Fits, Reviews, GatedLabels
      <3> QED
        BY <1>1, <2>1, <2>3, <3>1, StillAsWas, TaskMoves
    <2>5. c \in [account : Accounts, payee : Invoices, request : Requests] /\ r \in Requests
      BY <1>1, <1>2, <1>3, ConnRow, NwcAssumption
      DEF NwcTypeOK, Jobs, RequestEvents, ServiceInv
    <2>6. NwcTypeOK'
      BY <1>1, <1>2, <2>1, <2>5 DEF NwcTypeOK
    <2>7. AnswerInv' /\ AdmittedInv'
      <3>1. AnswerInv'
        BY <1>1, <2>1 DEF ServiceInv, AnswerInv
      <3> QED
        BY <1>1, <2>1, <3>1 DEF ServiceInv, AdmittedInv, JobAt, Deadline
    <2>8. HandlerOK(t)'
      <3>1. HasReview(t)'
        BY <1>1, <1>3, <2>3 DEF HasReview
      <3> QED
        BY <1>1, <1>2, <1>3, <2>1, <2>3, <3>1 DEF HandlerOK, InWallet, Known, Conn, IsActive
    <2>9. Alone(t)
      BY <1>1, <2>1, <2>2, <2>3 DEF Alone, Goto
    <2>10. Claimed(work[t])' /\ Unpaid(work[t])'
      <3>1. c.account = work[t].account /\ c.payee = work[t].payee
        BY <1>3
      <3>2. ~Claimed(work[t])
        BY <1>3, <2>1 DEF Claimed
      <3>3. Unpaid(work[t])
        BY <3>2 DEF ServiceInv, ClaimInv, Claimed, Unpaid
      <3> QED
        BY <1>1, <2>1, <2>3, <3>1, <3>3 DEF Claimed, Unpaid
    <2> QED
      BY <1>1, <2>1, <2>4, <2>6, <2>7, <2>8, <2>9, <2>10, HandlerServes
  <1> QED
    BY <1>4, <1>5

\* A review whose life is cut short is one that was shown for longer.
LEMMA LimitKeeps ==
    ASSUME SpendInv, NEW t \in Tasks, pc[t] = "back", NEW expiry \in Nat,
           LimitReview(work[t].id, expiry), work' = [work EXCEPT ![t].expiry = expiry],
           UNCHANGED <<now, held, selected, epoch, gate, locking, pc, issued, payments>>
    PROVE  SpendInv'
  <1> USE WalletAssumption DEF SpendInv
  <1>1. work \in [Tasks -> Works \cup {NoWork}] /\ work[t] \in Works /\ Placed(pc[t], work[t])
    BY DEF TaskInv, WalletTypeOK, Placed
  <1>2. /\ work' \in [Tasks -> Works \cup {NoWork}] /\ Placed(pc[t], work'[t])
        /\ \A u \in Tasks \ {t} : work'[u] = work[u]
    <2>1. work'[t] \in Works /\ work'[t].op = work[t].op /\ work'[t].mint = work[t].mint
      BY <1>1 DEF Works
    <2> QED
      BY <1>1, <2>1 DEF Placed, Pays
  <1>3. ASSUME NEW q \in approvals'
        PROVE  \E r \in approvals :
                  /\ q = (IF r.id = work[t].id /\ expiry < r.expiry THEN [r EXCEPT !.expiry = expiry] ELSE r)
                  /\ r \in ApprovalRows /\ q \in ApprovalRows
                  /\ q.id = r.id /\ q.account = r.account /\ q.payee = r.payee /\ q.mint = r.mint
                  /\ q.maximum = r.maximum /\ q.epoch = r.epoch /\ q.bumped = r.bumped
                  /\ q.expiry <= r.expiry
    <2>1. PICK r \in approvals :
            q = (IF r.id = work[t].id /\ expiry < r.expiry THEN [r EXCEPT !.expiry = expiry] ELSE r)
      BY DEF LimitReview
    <2>2. r \in ApprovalRows /\ r.expiry \in Nat
      BY DEF TaskInv, WalletTypeOK, ApprovalRows
    <2>3. CASE r.id = work[t].id /\ expiry < r.expiry
      <3>1. q = [r EXCEPT !.expiry = expiry]
        BY <2>1, <2>3
      <3>2. /\ q \in ApprovalRows /\ q.id = r.id /\ q.account = r.account /\ q.payee = r.payee
            /\ q.mint = r.mint /\ q.maximum = r.maximum /\ q.epoch = r.epoch /\ q.bumped = r.bumped
            /\ q.expiry = expiry
        BY <2>2, <3>1 DEF ApprovalRows
      <3>3. q.expiry <= r.expiry
        BY <2>2, <2>3, <3>2
      <3> QED
        BY <2>1, <2>2, <3>2, <3>3
    <2>4. CASE ~(r.id = work[t].id /\ expiry < r.expiry)
      BY <2>1, <2>2, <2>4
    <2> QED
      BY <2>3, <2>4
  <1>4. ~Pays("back", work[t]) /\ ~Reviews("back", work[t]) /\ ~Pays("back", work'[t]) /\ ~Reviews("back", work'[t])
    BY DEF Pays, Reviews
  <1>5. TaskInv'
    <2>1. approvals' \subseteq ApprovalRows
      BY <1>3
    <2> QED
      BY <1>1, <1>2, <2>1 DEF TaskInv, WalletTypeOK
  <1>6. OnceInv'
    <2>1. \A q, s \in approvals' : q.id = s.id => q = s
      <3> SUFFICES ASSUME NEW q \in approvals', NEW s \in approvals', q.id = s.id PROVE q = s
        OBVIOUS
      <3>1. PICK a \in approvals : q.id = a.id /\ q = (IF a.id = work[t].id /\ expiry < a.expiry
                                        THEN [a EXCEPT !.expiry = expiry] ELSE a)
        BY <1>3
      <3>2. PICK b \in approvals : s.id = b.id /\ s = (IF b.id = work[t].id /\ expiry < b.expiry
                                        THEN [b EXCEPT !.expiry = expiry] ELSE b)
        BY <1>3
      <3>3. a = b
        BY <3>1, <3>2 DEF OnceInv
      <3> QED
        BY <3>1, <3>2, <3>3
    <2>2. \A q \in approvals' : \E r \in approvals : q.id = r.id
      BY <1>3
    <2> QED
      BY <1>2, <1>4, <2>1, <2>2 DEF OnceInv, ReviewPaysOnce
  <1>7. MatchInv'
    <2>1. ASSUME NEW q \in approvals' PROVE \E s \in issued : Covers(s, q)
      <3>1. PICK r \in approvals :
              /\ r \in ApprovalRows /\ q \in ApprovalRows
              /\ q.id = r.id /\ q.account = r.account /\ q.payee = r.payee /\ q.mint = r.mint
              /\ q.maximum = r.maximum /\ q.expiry <= r.expiry
        BY <1>3
      <3>2. PICK s \in issued : Covers(s, r)
        BY DEF MatchInv
      <3>3. s.expiry \in Nat /\ r.expiry \in Nat /\ q.expiry \in Nat
        BY <3>1 DEF TaskInv, WalletTypeOK, ApprovalRows
      <3> QED
        BY <3>1, <3>2, <3>3 DEF Covers
    <2> QED
      BY <1>2, <1>4, <2>1 DEF MatchInv, PaidAsReviewed
  <1>8. LockInv'
    <2>1. \A q \in approvals' : \E r \in approvals : q.epoch = r.epoch /\ q.bumped = r.bumped
      BY <1>3
    <2> QED
      BY <1>2, <1>4, <2>1 DEF LockInv, InEpoch, LockVoidsReviews
  <1> QED
    BY <1>5, <1>6, <1>7, <1>8

LEMMA AskKeeps ==
    ASSUME SpendInv, ServiceInv, NEW t \in Tasks, Ask(t)
    PROVE  SpendInv' /\ ServiceInv'
  <1> DEFINE expiry == Least(work[t].expiry, Least(Deadline(job[t].request), now + PromptLife))
  <1>1. /\ pc[t] = "back" /\ job[t] # NoJob /\ job[t].at = "review" /\ work[t].ok
        /\ LimitReview(work[t].id, expiry) /\ work' = [work EXCEPT ![t].expiry = expiry]
        /\ JobGoes(t, "asking")
        /\ UNCHANGED <<now, held, selected, epoch, gate, locking, pc, issued, payments>>
        /\ UNCHANGED <<conns, revoked, table, claims, admitted, consented>>
    BY DEF Ask, JobAt
  <1>2. NwcTypeOK /\ HandlerOK(t)
    BY DEF ServiceInv, HandlerInv
  <1>3. work \in [Tasks -> Works \cup {NoWork}] /\ work[t] \in Works /\ now \in Nat
    BY <1>1 DEF SpendInv, TaskInv, WalletTypeOK, Placed
  <1>4. job[t].request \in RequestEvents
    BY <1>1, <1>2, NwcAssumption DEF NwcTypeOK, Jobs
  <1>5. expiry \in Nat
    BY <1>3, <1>4, NwcAssumption DEF Least, Deadline, Works, RequestEvents
  <1> HIDE DEF expiry
  <1>6. SpendInv'
    BY <1>1, <1>5, LimitKeeps
  <1>7. Onward(t, "asking") /\ NwcTypeOK'
    <2>1. Onward(t, "asking")
      BY <1>1, <1>2, JobOnward DEF JobLabels
    <2> QED
      BY <1>1, <1>2, <2>1 DEF NwcTypeOK, Onward
  <1>8. AnswerInv' /\ AdmittedInv'
    BY <1>1, <1>7, SameRequests DEF Advances, JobLabels
  <1>9. /\ work'[t].op = work[t].op /\ work'[t].window = work[t].window
        /\ work'[t].account = work[t].account /\ work'[t].payee = work[t].payee
        /\ work'[t].id = work[t].id
    BY <1>1, <1>3 DEF Works
  <1>10. HandlerOK(t)'
    <2>1. HasReview(t)'
      BY <1>1, <1>2, <1>9 DEF HandlerOK, HasReview
    <2> QED
      BY <1>1, <1>2, <1>7, <1>9, <2>1 DEF HandlerOK, Onward, InWallet, Known, Conn
  <1>11. Alone(t) /\ ~JobAt(t, "paying")'
    BY <1>1, <1>3, <1>7 DEF Alone, Onward, JobAt
  <1> QED
    BY <1>1, <1>6, <1>7, <1>8, <1>10, <1>11, HandlerServes

LEMMA AnswerKeeps ==
    ASSUME SpendInv, ServiceInv, NEW t \in Tasks, NEW allow \in BOOLEAN, NwcAnswer(t, allow)
    PROVE  SpendInv' /\ ServiceInv'
  <1>1. /\ job[t] # NoJob /\ job[t].at = "asking"
        /\ JobGoes(t, IF allow THEN "allowed" ELSE "refused")
        /\ consented' = IF allow THEN consented \cup {work[t].id} ELSE consented
        /\ UNCHANGED <<walletVars, conns, revoked, table, claims, admitted>>
    BY DEF NwcAnswer, JobAt
  <1>2. UNCHANGED walletVars /\ UNCHANGED <<now, gate, pc, work, issued, payments>>
    BY <1>1 DEF walletVars
  <1>3. SpendInv'
    BY <1>2, NextKeeps
  <1>4. NwcTypeOK /\ HandlerOK(t)
    BY DEF ServiceInv, HandlerInv
  <1>5. PICK l \in {"allowed", "refused"} : /\ Onward(t, l) /\ (l = "allowed" => work[t].id \in consented')
    BY <1>1, <1>4, JobOnward DEF JobLabels
  <1>6. NwcTypeOK' /\ consented \subseteq consented'
    BY <1>1, <1>4, <1>5 DEF NwcTypeOK, Onward
  <1>7. AnswerInv' /\ AdmittedInv'
    BY <1>1, <1>2, <1>5, SameRequests DEF Advances, JobLabels
  <1>8. HandlerOK(t)'
    <2>1. HasReview(t)'
      BY <1>1, <1>2, <1>4 DEF HandlerOK, HasReview
    <2> QED
      BY <1>1, <1>2, <1>4, <1>5, <2>1 DEF HandlerOK, Onward, InWallet, Known, Conn
  <1>9. Alone(t) /\ ~JobAt(t, "paying")'
    BY <1>2, <1>5 DEF Alone, Onward, JobAt
  <1> QED
    BY <1>1, <1>2, <1>3, <1>6, <1>7, <1>8, <1>9, HandlerServes

-----------------------------------------------------------------------------
(* The table of requests *)

\* Respond rewrites the row of r alone.
LEMMA RespondRows ==
    ASSUME NwcTypeOK, NEW r, NEW response \in {"empty", "reply"}, Respond(r, response)
    PROVE  /\ table' \subseteq [request : Requests, created : Nat, response : {"null", "empty", "reply"}]
           /\ \A x, y \in table' : x.request = y.request => x = y
           /\ \A y \in table' : \E x \in table :
                 /\ y.request = x.request /\ y.created = x.created
                 /\ x.request # r => y = x
           /\ \A x \in table : \E y \in table' : y.request = x.request
  <1> DEFINE F(x) == IF x.request = r THEN [x EXCEPT !.response = response] ELSE x
  <1>1. ASSUME NEW x \in table
        PROVE  /\ F(x) \in [request : Requests, created : Nat, response : {"null", "empty", "reply"}]
               /\ F(x).request = x.request /\ F(x).created = x.created
               /\ x.request # r => F(x) = x
    BY DEF NwcTypeOK
  <1>2. table' = {F(x) : x \in table}
    BY DEF Respond
  <1> HIDE DEF F
  <1>3. \A x, y \in table : x.request = y.request => x = y
    BY DEF NwcTypeOK
  <1>4. \A x, y \in table' : x.request = y.request => x = y
    BY <1>1, <1>2, <1>3
  <1> QED
    BY <1>1, <1>2, <1>4

\* The request is answered by its own handler, which goes to publish or is done.
LEMMA RespondKeeps ==
    ASSUME SpendInv, ServiceInv, NEW t \in Tasks, job[t] # NoJob, job[t].at \in {"run", "finish"},
           NEW response \in {"empty", "reply"}, Respond(job[t].request, response),
           JobEnds(t) \/ JobGoes(t, "publish"),
           UNCHANGED <<walletVars, conns, revoked, claims, admitted, consented>>
    PROVE  SpendInv' /\ ServiceInv'
  <1> DEFINE r == job[t].request
  <1>1. UNCHANGED walletVars /\ UNCHANGED <<now, gate, pc, work, issued, payments>>
    BY DEF walletVars
  <1>2. SpendInv'
    BY <1>1, NextKeeps
  <1>3. NwcTypeOK /\ HandlerOK(t)
    BY DEF ServiceInv, HandlerInv
  <1>4. Ended(t) \/ Onward(t, "publish")
    BY <1>3, JobOver, JobOnward DEF JobLabels
  <1>5. /\ table' \subseteq [request : Requests, created : Nat, response : {"null", "empty", "reply"}]
        /\ \A x, y \in table' : x.request = y.request => x = y
        /\ \A y \in table' : \E x \in table :
              /\ y.request = x.request /\ y.created = x.created
              /\ x.request # r => y = x
        /\ \A x \in table : \E y \in table' : y.request = x.request
    BY <1>3, RespondRows
  <1>6. NwcTypeOK'
    BY <1>3, <1>4, <1>5 DEF NwcTypeOK, Ended, Onward
  <1>7. AnswerInv'
    <2>1. \A u, v \in Tasks :
             /\ job'[u] # NoJob /\ job'[v] # NoJob /\ job'[u].at # "begin" /\ job'[v].at # "begin"
             /\ job'[u].request = job'[v].request
             => u = v
      BY <1>4 DEF ServiceInv, AnswerInv, Ended, Onward
    <2>2. ASSUME NEW u \in Tasks, NEW y \in table',
                 job'[u] # NoJob, job'[u].at \notin {"begin", "finish", "publish"},
                 y.request = job'[u].request
          PROVE  y.response = "null"
      <3>1. u # t /\ job'[u] = job[u]
        BY <1>4, <2>2 DEF Ended, Onward
      <3>2. job[u].request # r
        BY <2>2, <3>1 DEF ServiceInv, AnswerInv
      <3>3. y \in table
        BY <1>5, <2>2, <3>1, <3>2
      <3> QED
        BY <2>2, <3>1, <3>3 DEF ServiceInv, AnswerInv
    <2> QED
      BY <2>1, <2>2 DEF AnswerInv
  <1>8. AdmittedInv'
    <2>1. \A u \in Tasks : JobAt(u, "begin")' => JobAt(u, "begin") /\ job'[u] = job[u]
      BY <1>4 DEF JobAt, Ended, Onward
    <2>2. \A y \in table' : y.request.at <= y.created + Skew
      BY <1>5 DEF ServiceInv, AdmittedInv
    <2> QED
      BY <1>1, <1>5, <2>1, <2>2 DEF ServiceInv, AdmittedInv, Deadline
  <1>9. HandlerOK(t)'
    <2>1. pc[t] = "idle" /\ Known(r)
      BY <1>3 DEF HandlerOK, InWallet
    <2> QED
      BY <1>1, <1>4, <2>1 DEF HandlerOK, Ended, Onward, InWallet, Known
  <1>10. Alone(t) /\ ~JobAt(t, "paying")'
    BY <1>1, <1>4 DEF Alone, Ended, Onward, JobAt
  <1> QED
    BY <1>1, <1>2, <1>6, <1>7, <1>8, <1>9, <1>10, HandlerServes

LEMMA RunKeeps ==
    ASSUME SpendInv, ServiceInv, NEW t \in Tasks, RunRequest(t)
    PROVE  SpendInv' /\ ServiceInv'
  <1> DEFINE r == job[t].request
  <1> DEFINE w == [op |-> "review", window |-> FALSE, account |-> Conn(r).account,
                   payee |-> r.payee, id |-> NoHandle, mint |-> Conn(r).mint]
  <1>1. /\ job[t] # NoJob /\ job[t].at = "run"
        /\ UNCHANGED <<now, held, selected, epoch, approvals, gate, locking, issued, payments>>
        /\ UNCHANGED <<conns, revoked, claims, admitted, consented>>
    BY DEF RunRequest, JobAt
  <1>2. \/ /\ JobEnds(t) \/ JobGoes(t, "finish")
           /\ UNCHANGED <<table, pc, work>>
        \/ Respond(r, "empty") /\ JobEnds(t) /\ UNCHANGED <<pc, work>>
        \/ JobGoes(t, "review") /\ Start(t, w) /\ UNCHANGED table
    BY DEF RunRequest
  <1>3. NwcTypeOK /\ HandlerOK(t) /\ HandlerInv
    BY DEF ServiceInv, HandlerInv
  <1>4. pc[t] = "idle" /\ Known(r)
    BY <1>1, <1>3 DEF HandlerOK, InWallet
  <1>5. CASE (JobEnds(t) \/ JobGoes(t, "finish")) /\ UNCHANGED <<table, pc, work>>
    <2>1. UNCHANGED walletVars
      BY <1>1, <1>5 DEF walletVars
    <2>2. SpendInv'
      BY <2>1, NextKeeps
    <2>3. Ended(t) \/ Onward(t, "finish")
      BY <1>1, <1>3, <1>5, JobOver, JobOnward DEF JobLabels
    <2>4. NwcTypeOK'
      BY <1>1, <1>3, <1>5, <2>3 DEF NwcTypeOK, Ended, Onward
    <2>5. AnswerInv' /\ AdmittedInv'
      BY <1>1, <1>5, <2>3, SameRequests DEF Advances, JobLabels
    <2>6. HandlerOK(t)'
      BY <1>1, <1>4, <1>5, <2>3 DEF HandlerOK, Ended, Onward, InWallet, Known
    <2>7. Alone(t) /\ ~JobAt(t, "paying")'
      BY <1>1, <1>5, <2>3 DEF Alone, Ended, Onward, JobAt
    <2> QED
      BY <1>1, <2>2, <2>4, <2>5, <2>6, <2>7, HandlerServes
  <1>6. CASE Respond(r, "empty") /\ JobEnds(t) /\ UNCHANGED <<pc, work>>
    <2>1. UNCHANGED <<walletVars, conns, revoked, claims, admitted, consented>>
      BY <1>1, <1>6 DEF walletVars
    <2> QED
      BY <1>1, <1>6, <2>1, RespondKeeps
  <1>7. CASE JobGoes(t, "review") /\ Start(t, w) /\ UNCHANGED table
    <2>1. Conn(r).account \in Accounts /\ Conn(r).mint \in Mints
      BY <1>3, <1>4, ConnRow
    <2>2. r.payee \in Invoices
      BY <1>1, <1>3, NwcAssumption DEF NwcTypeOK, Jobs, RequestEvents
    <2>3. Arguments(w)
      BY <2>1, <2>2 DEF Arguments, Ops, Payees
    <2>4. SpendInv'
      <3>1. Still
        BY <1>1, StillAsWas
      <3> HIDE DEF w
      <3> QED
        BY <1>1, <1>7, <2>3, <3>1, StartKeeps
    <2>5. /\ pc \in [Tasks -> Labels] /\ work \in [Tasks -> Works \cup {NoWork}]
      BY DEF SpendInv, TaskInv, WalletTypeOK
    <2>6. /\ pc'[t] = "gate" /\ work'[t].op = "review" /\ ~work'[t].window
          /\ work'[t].account = Conn(r).account /\ work'[t].payee = r.payee
          /\ \A u \in Tasks \ {t} : pc'[u] = pc[u] /\ work'[u] = work[u]
      BY <1>7, <2>5 DEF Start
    <2>7. Onward(t, "review") /\ NwcTypeOK'
      <3>1. Onward(t, "review")
        BY <1>1, <1>3, <1>7, JobOnward DEF JobLabels
      <3> QED
        BY <1>1, <1>3, <1>7, <3>1 DEF NwcTypeOK, Onward
    <2>8. AnswerInv' /\ AdmittedInv'
      BY <1>1, <1>7, <2>7, SameRequests DEF Advances, JobLabels
    <2>9. HandlerOK(t)'
      BY <1>1, <1>4, <2>6, <2>7 DEF HandlerOK, Onward, InWallet, Known, Conn
    <2>10. Alone(t) /\ ~JobAt(t, "paying")'
      BY <1>1, <2>6, <2>7 DEF Alone, Onward, JobAt
    <2> QED
      BY <1>1, <2>4, <2>7, <2>8, <2>9, <2>10, HandlerServes
  <1> QED
    BY <1>2, <1>5, <1>6, <1>7

LEMMA FinishKeeps ==
    ASSUME SpendInv, ServiceInv, NEW t \in Tasks, Finish(t)
    PROVE  SpendInv' /\ ServiceInv'
  BY RespondKeeps DEF Finish, JobAt

\* A row goes only when its request is too old to be taken: it was dated at most Skew
\* ahead, lives at most MaxAge, and its row stays Retain.
LEMMA PrunedCovers ==
    ASSUME SpendInv, ServiceInv, NEW r \in admitted
    PROVE  (\E x \in Pruned : x.request = r) \/ Deadline(r) <= now
  <1> USE NwcAssumption
  <1>1. CASE Deadline(r) <= now
    BY <1>1
  <1>2. CASE ~(Deadline(r) <= now)
    <2>1. PICK x \in table : x.request = r
      BY <1>2 DEF ServiceInv, AdmittedInv
    <2>2. /\ x.created \in Nat /\ r \in RequestEvents /\ now \in Nat
          /\ r.at <= x.created + Skew
      BY <2>1 DEF ServiceInv, AdmittedInv, HandlerInv, NwcTypeOK, SpendInv, TaskInv, WalletTypeOK
    <2>3. r.at \in Nat /\ r.life \in Nat /\ r.life <= MaxAge
      BY <2>2 DEF RequestEvents
    <2>4. x.created + Retain >= now
      BY <1>2, <2>2, <2>3 DEF Deadline
    <2> QED
      BY <2>1, <2>4 DEF Pruned
  <1> QED
    BY <1>1, <1>2

\* The three ways past the head of handle.
Begun(t, admission) == job' = [job EXCEPT ![t].at = "locked", ![t].admission = admission]

LEMMA BegunOnward ==
    ASSUME NwcTypeOK, NEW t \in Tasks, job[t] # NoJob, NEW a \in {"new", "replay", "limited"}, Begun(t, a)
    PROVE  Onward(t, "locked")
  <1>1. job[t] \in Jobs /\ job \in [Tasks -> Jobs \cup {NoJob}]
    BY DEF NwcTypeOK
  <1> DEFINE j == [job[t] EXCEPT !.at = "locked", !.admission = a]
  <1>2. job' = [job EXCEPT ![t] = j]
    BY <1>1 DEF Begun
  <1>3. j \in Jobs /\ j.at = "locked" /\ j.request = job[t].request
    BY <1>1 DEF Jobs, JobLabels
  <1> HIDE DEF j
  <1> QED
    BY <1>1, <1>2, <1>3, NwcAssumption DEF Onward

LEMMA BeginKeeps ==
    ASSUME SpendInv, ServiceInv, NEW t \in Tasks, BeginRequest(t)
    PROVE  SpendInv' /\ ServiceInv'
  <1> USE NwcAssumption
  <1> DEFINE r == job[t].request
  <1> DEFINE row == [request |-> r, created |-> now, response |-> "null"]
  <1>1. /\ job[t] # NoJob /\ job[t].at = "begin"
        /\ UNCHANGED <<walletVars, conns, revoked, claims, consented>>
    BY DEF BeginRequest, JobAt
  <1>2. UNCHANGED walletVars /\ UNCHANGED <<now, gate, pc, work, issued, payments>>
    BY <1>1 DEF walletVars
  <1>3. SpendInv'
    BY <1>2, NextKeeps
  <1>4. NwcTypeOK /\ HandlerOK(t) /\ now \in Nat /\ r \in Requests /\ r \in RequestEvents
    BY <1>1 DEF ServiceInv, HandlerInv, NwcTypeOK, Jobs, SpendInv, TaskInv, WalletTypeOK
  <1>5. /\ row \in [request : Requests, created : Nat, response : {"null", "empty", "reply"}]
        /\ row.request = r /\ row.created = now /\ row.response = "null"
    BY <1>4
  <1>6. \/ Ended(t) /\ table' \in {table, Pruned} /\ admitted' = admitted
        \/ /\ Onward(t, "locked") /\ ~InHand(t) /\ table' = Pruned /\ admitted' = admitted
           /\ \A x \in Pruned : x.request = r => x.response = "null"
        \/ /\ Onward(t, "locked") /\ ~InHand(t) /\ ~\E x \in Pruned : x.request = r
           /\ table' = Pruned \cup {row} /\ admitted' = admitted \cup {r}
    <2>1. CASE JobEnds(t) /\ table' \in {table, Pruned} /\ admitted' = admitted
      BY <1>4, <2>1, JobOver
    <2>2. CASE ~(JobEnds(t) /\ table' \in {table, Pruned} /\ admitted' = admitted)
      <3>1. ~InHand(t)
        BY <2>2 DEF BeginRequest
      <3>2. \/ /\ Begun(t, "replay") /\ table' = Pruned /\ admitted' = admitted
               /\ \E x \in Pruned : x.request = r /\ x.response = "null"
            \/ /\ Begun(t, "limited") /\ table' = Pruned /\ admitted' = admitted
               /\ ~\E x \in Pruned : x.request = r
            \/ /\ Begun(t, "new") /\ table' = Pruned \cup {row} /\ admitted' = admitted \cup {r}
               /\ ~\E x \in Pruned : x.request = r
        BY <2>2 DEF BeginRequest, Begun
      <3>3. Onward(t, "locked")
        BY <1>1, <1>4, <3>2, BegunOnward
      <3>4. \A x, y \in Pruned : x.request = y.request => x = y
        BY <1>4 DEF NwcTypeOK, Pruned
      <3> QED
        BY <3>1, <3>2, <3>3, <3>4
    <2> QED
      BY <2>1, <2>2
  <1> HIDE DEF row
  <1>7. Pruned \subseteq table
    BY DEF Pruned
  <1>8. NwcTypeOK'
    BY <1>1, <1>4, <1>5, <1>6, <1>7 DEF NwcTypeOK, Ended, Onward
  <1>9. AnswerInv'
    <2>1. CASE Ended(t)
      BY <1>6, <1>7, <2>1 DEF ServiceInv, AnswerInv, Ended, Onward
    <2>2. CASE ~Ended(t)
      <3>1. Onward(t, "locked") /\ ~InHand(t)
        BY <1>6, <2>2
      <3>2. \A u \in Tasks \ {t} : job'[u] # NoJob /\ job'[u].at # "begin" => job'[u].request # r
        BY <3>1 DEF Onward, InHand
      <3>3. \A x \in table' : x.request = r => x.response = "null"
        BY <1>5, <1>6, <2>2
      <3>4. \A x \in table' : x.request # r => x \in table
        BY <1>5, <1>6, <1>7, <2>2
      <3> QED
        BY <3>1, <3>2, <3>3, <3>4 DEF ServiceInv, AnswerInv, Onward
    <2> QED
      BY <2>1, <2>2
  <1>10. AdmittedInv'
    <2>1. \A u \in Tasks : JobAt(u, "begin")' => JobAt(u, "begin") /\ job'[u] = job[u]
      BY <1>6 DEF JobAt, Ended, Onward
    <2>2. r.at <= now + Skew
      BY <1>1 DEF ServiceInv, AdmittedInv, JobAt
    <2>3. \A x \in table' : x.request.at <= x.created + Skew
      BY <1>5, <1>6, <1>7, <2>2 DEF ServiceInv, AdmittedInv
    <2>4. \A q \in admitted : (\E x \in table' : x.request = q) \/ Deadline(q) <= now
      BY <1>6, PrunedCovers DEF ServiceInv, AdmittedInv
    <2>5. admitted' \subseteq admitted \cup {r} /\ (r \in admitted' => r \in admitted \/ \E x \in table' : x.request = r)
      BY <1>5, <1>6
    <2>6. admitted' \subseteq Requests
      BY <1>4, <2>5 DEF ServiceInv, AdmittedInv
    <2> QED
      BY <1>2, <2>1, <2>3, <2>4, <2>5, <2>6 DEF ServiceInv, AdmittedInv, Deadline
  <1>11. HandlerOK(t)' /\ Alone(t) /\ ~JobAt(t, "paying")'
    <2>1. pc[t] = "idle" /\ Known(r)
      BY <1>1, <1>4 DEF HandlerOK, InWallet
    <2> QED
      BY <1>1, <1>2, <1>6, <2>1 DEF HandlerOK, Ended, Onward, InWallet, Known, Alone, JobAt
  <1> QED
    BY <1>1, <1>2, <1>3, <1>8, <1>9, <1>10, <1>11, HandlerServes

LEMMA DeliverKeeps ==
    ASSUME SpendInv, ServiceInv, NEW t \in Tasks, NEW r \in Requests, Deliver(t, r)
    PROVE  SpendInv' /\ ServiceInv'
  <1> DEFINE j == [at |-> "begin", request |-> r, admission |-> "none"]
  <1>1. /\ job[t] = NoJob /\ pc[t] = "idle" /\ IsActive(r.conn) /\ Fresh(r)
        /\ job' = [job EXCEPT ![t] = j]
        /\ UNCHANGED <<walletVars, conns, revoked, table, claims, admitted, consented>>
    BY DEF Deliver
  <1>2. UNCHANGED walletVars /\ UNCHANGED <<now, gate, pc, work, issued, payments>>
    BY <1>1 DEF walletVars
  <1>3. SpendInv'
    BY <1>2, NextKeeps
  <1>4. NwcTypeOK /\ HandlerOK(t)
    BY DEF ServiceInv, HandlerInv
  <1>5. j \in Jobs /\ j.at = "begin" /\ j.request = r /\ j # NoJob
    BY NwcAssumption DEF Jobs, JobLabels
  <1> HIDE DEF j
  <1>6. job' \in [Tasks -> Jobs \cup {NoJob}] /\ job'[t] = j /\ \A u \in Tasks \ {t} : job'[u] = job[u]
    BY <1>1, <1>4, <1>5 DEF NwcTypeOK
  <1>7. NwcTypeOK'
    BY <1>1, <1>4, <1>6 DEF NwcTypeOK
  <1>8. AnswerInv'
    BY <1>1, <1>5, <1>6 DEF ServiceInv, AnswerInv
  <1>9. AdmittedInv'
    <2>1. Deadline(r) > now /\ r.at <= now + Skew
      BY <1>1 DEF Fresh
    <2> QED
      BY <1>1, <1>2, <1>5, <1>6, <2>1 DEF ServiceInv, AdmittedInv, JobAt, Deadline
  <1>10. HandlerOK(t)' /\ Alone(t) /\ ~JobAt(t, "paying")'
    <2>1. Known(r)
      BY <1>1 DEF IsActive, Known
    <2> QED
      BY <1>1, <1>2, <1>5, <1>6, <2>1 DEF HandlerOK, InWallet, Known, Alone, JobAt
  <1> QED
    BY <1>1, <1>2, <1>3, <1>7, <1>8, <1>9, <1>10, HandlerServes

-----------------------------------------------------------------------------
(* Connections *)

\* Ids are not used twice, so a request in hand keeps its connection.
LEMMA PairKeeps ==
    ASSUME SpendInv, ServiceInv, NEW i \in Conns, NEW a \in Accounts, NwcPair(i, a)
    PROVE  SpendInv' /\ ServiceInv'
  <1> DEFINE c == [id |-> i, account |-> a, mint |-> selected[a], created |-> now]
  <1>1. /\ i \notin {d.id : d \in conns} /\ conns' = conns \cup {c} /\ c.id = i
        /\ UNCHANGED <<walletVars, revoked, table, claims, job, admitted, consented>>
    BY DEF NwcPair
  <1>2. UNCHANGED walletVars /\ UNCHANGED <<now, gate, pc, work, issued, payments>>
    BY <1>1 DEF walletVars
  <1>3. SpendInv'
    BY <1>2, NextKeeps
  <1>4. c \in [id : Conns, account : Accounts, mint : Mints, created : Nat]
    BY DEF SpendInv, TaskInv, WalletTypeOK
  <1> HIDE DEF c
  <1>5. NwcTypeOK' /\ \A d, e \in conns' : d.id = e.id => d = e
    BY <1>1, <1>4 DEF ServiceInv, HandlerInv, NwcTypeOK
  <1>6. \A r : Known(r) => Known(r)' /\ Conn(r)' = Conn(r)
    <2> SUFFICES ASSUME NEW r, Known(r) PROVE Known(r)' /\ Conn(r)' = Conn(r)
      OBVIOUS
    <2>1. Conn(r) \in conns /\ Conn(r).id = r.conn
      BY DEF Known, Conn
    <2>2. Conn(r)' \in conns' /\ Conn(r)'.id = r.conn
      BY <1>1, <2>1 DEF Conn
    <2> QED
      BY <1>1, <1>5, <2>1, <2>2 DEF Known
  <1>7. \A k : IsActive(k) => IsActive(k)'
    BY <1>1 DEF IsActive
  <1>8. ASSUME NEW u \in Tasks PROVE HandlerOK(u)'
    <2>1. HandlerOK(u) /\ job'[u] = job[u]
      BY <1>1 DEF ServiceInv, HandlerInv
    <2>2. HasReview(u)' = HasReview(u)
      BY <1>2 DEF HasReview
    <2>3. CASE job[u] = NoJob
      BY <1>2, <2>1, <2>3 DEF HandlerOK
    <2>4. CASE job[u] # NoJob
      <3>1. Known(job[u].request)
        BY <2>1, <2>4 DEF HandlerOK
      <3>2. Known(job[u].request)' /\ Conn(job[u].request)' = Conn(job[u].request)
        BY <1>6, <2>1, <3>1 DEF Known, Conn
      <3>3. IsActive(job[u].request.conn) => IsActive(job[u].request.conn)'
        BY <1>7, <2>1 DEF IsActive
      <3> QED
        BY <1>1, <1>2, <2>1, <2>2, <2>4, <3>2, <3>3 DEF HandlerOK
    <2> QED
      BY <2>3, <2>4
  <1>9. HandlerInv'
    BY <1>1, <1>2, <1>5, <1>8 DEF ServiceInv, HandlerInv
  <1>10. ClaimInv' /\ AnswerInv'
    BY <1>1, <1>2 DEF ServiceInv, ClaimInv, AnswerInv, Claimed, Unpaid, EachInvoicePaidOnce, JobAt
  <1>11. AdmittedInv'
    BY <1>1, <1>2 DEF ServiceInv, AdmittedInv, Deadline, JobAt
  <1> QED
    BY <1>3, <1>9, <1>10, <1>11 DEF ServiceInv

\* With the gate free no handler is past its last look at the connection.
LEMMA RevokeKeeps ==
    ASSUME SpendInv, ServiceInv, NEW i \in Conns, NwcRevoke(i)
    PROVE  SpendInv' /\ ServiceInv'
  <1>1. /\ gate = NoTask /\ IsActive(i) /\ revoked' = revoked \cup {i}
        /\ UNCHANGED <<walletVars, conns, table, claims, admitted, consented>>
    BY DEF NwcRevoke
  <1>2. UNCHANGED walletVars /\ UNCHANGED <<now, gate, pc, work, issued, payments>>
    BY <1>1 DEF walletVars
  <1>3. SpendInv'
    BY <1>2, NextKeeps
  <1>4. ASSUME NEW u \in Tasks
        PROVE  \/ job'[u] = job[u]
               \/ /\ job[u] # NoJob /\ job[u].at = "asking"
                  /\ job'[u] \in Jobs /\ job'[u] # NoJob /\ job'[u].at = "refused"
                  /\ job'[u].request = job[u].request
    <2>1. job'[u] = job[u] \/ (JobAt(u, "asking") /\ job'[u] = [job[u] EXCEPT !.at = "refused"])
      BY DEF NwcRevoke, JobAt
    <2>2. job[u] \in Jobs \cup {NoJob}
      BY DEF ServiceInv, HandlerInv, NwcTypeOK
    <2> QED
      BY <2>1, <2>2, NwcAssumption DEF JobAt, Jobs, JobLabels
  <1>5. NwcTypeOK'
    <2>1. job' \in [Tasks -> Jobs \cup {NoJob}]
      <3>1. \A u \in Tasks : job'[u] \in Jobs \cup {NoJob}
        BY <1>4 DEF ServiceInv, HandlerInv, NwcTypeOK
      <3> QED
        BY <3>1 DEF NwcRevoke
    <2> QED
      BY <1>1, <2>1 DEF ServiceInv, HandlerInv, NwcTypeOK, IsActive
  <1>6. ASSUME NEW u \in Tasks PROVE HandlerOK(u)'
    <2>1. HandlerOK(u) /\ gate # u
      BY <1>1, WalletAssumption DEF ServiceInv, HandlerInv
    <2>2. HasReview(u)' = HasReview(u)
      BY <1>2 DEF HasReview
    <2>3. CASE job'[u] = job[u]
      <3>1. Known(job[u].request)' = Known(job[u].request) /\ Conn(job[u].request)' = Conn(job[u].request)
        BY <1>1, <2>3 DEF Known, Conn
      <3> QED
        BY <1>1, <1>2, <2>1, <2>2, <2>3, <3>1 DEF HandlerOK
    <2>4. CASE job'[u] # job[u]
      <3>1. /\ job[u] # NoJob /\ job[u].at = "asking" /\ job'[u] # NoJob /\ job'[u].at = "refused"
            /\ job'[u].request = job[u].request
        BY <1>4, <2>4
      <3>2. Known(job[u].request)' = Known(job[u].request) /\ Conn(job[u].request)' = Conn(job[u].request)
        BY <1>1, <3>1 DEF Known, Conn
      <3> QED
        BY <1>1, <1>2, <2>1, <2>2, <3>1, <3>2 DEF HandlerOK, InWallet
    <2> QED
      BY <2>3, <2>4
  <1>7. HandlerInv'
    BY <1>1, <1>2, <1>5, <1>6 DEF ServiceInv, HandlerInv
  <1>8. ClaimInv'
    BY <1>1, <1>2, <1>4 DEF ServiceInv, ClaimInv, Claimed, Unpaid, EachInvoicePaidOnce, JobAt
  <1>9. AnswerInv'
    BY <1>1, <1>4 DEF ServiceInv, AnswerInv
  <1>10. AdmittedInv'
    BY <1>1, <1>2, <1>4 DEF ServiceInv, AdmittedInv, Deadline, JobAt
  <1> QED
    BY <1>3, <1>7, <1>8, <1>9, <1>10 DEF ServiceInv

-----------------------------------------------------------------------------
(* The theorems *)

LEMMA ServiceNextKeeps ==
    ASSUME SpendInv, ServiceInv, [NwcNext]_allVars
    PROVE  SpendInv' /\ ServiceInv'
  <1>1. CASE NwcNext
    <2>1. ASSUME NEW t \in Tasks, Handler(t) PROVE SpendInv' /\ ServiceInv'
      BY <2>1, BeginKeeps, QuietSteps, RunKeeps, AskKeeps, ResultKeeps, ApprovedKeeps, ClaimKeeps,
         FinishKeeps DEF Handler
    <2> QED
      BY <1>1, <2>1, WalletPartKeeps, DeliverKeeps, AnswerKeeps, PairKeeps, RevokeKeeps,
         RestartKeeps
      DEF NwcNext
  <1>2. CASE UNCHANGED allVars
    <2>1. UNCHANGED walletVars /\ UNCHANGED nwcVars
      BY <1>2 DEF allVars
    <2>2. UNCHANGED <<now, gate, pc, work, issued, payments>>
      BY <2>1 DEF walletVars
    <2>3. now \in Nat /\ \A u \in Tasks : SameTask(u)
      BY <2>2 DEF SpendInv, TaskInv, WalletTypeOK, SameTask
    <2> QED
      BY <2>1, <2>2, <2>3, NextKeeps, AsideServes
  <1> QED
    BY <1>1, <1>2

LEMMA ServiceInductive == NwcSpec => [](SpendInv /\ ServiceInv)
  <1>1. SpendInv /\ ServiceInv /\ [NwcNext]_allVars => (SpendInv /\ ServiceInv)'
    BY ServiceNextKeeps
  <1> QED
    BY <1>1, ServiceInitHolds, PTL DEF NwcSpec

\* The tables of nwc.sqlite stay well formed, and whatever handlers spend is a review the user
\* allowed (nwc_answer), each permission good for one payment, across crashes and redeliveries.
THEOREM NothingIsSpentUnasked == NwcSpec => []NwcInv
  <1>1. SpendInv /\ ServiceInv => NwcInv
    BY DEF SpendInv, OnceInv, ServiceInv, HandlerInv, NwcInv, EverySpendApproved
  <1> QED
    BY <1>1, ServiceInductive, PTL

\* Handlers pay an invoice of an account at most once, for any number of connections and
\* requests that name it: the claim in table payments is written before pay_reviewed.
THEOREM ClaimsMakeInvoicesUnique == NwcSpec => []EachInvoicePaidOnce
  <1>1. SpendInv /\ ServiceInv => EachInvoicePaidOnce
    BY DEF ServiceInv, ClaimInv
  <1> QED
    BY <1>1, ServiceInductive, PTL

\* No handler is on its way to pay for a request that table requests says is answered, however
\* often the relay delivers it (active_requests in handle).
THEOREM AnswersComeLast == NwcSpec => []AnsweredIsNeverPaid
  <1>1. SpendInv /\ ServiceInv => AnsweredIsNeverPaid
    BY DEF ServiceInv, AnswerInv, AnsweredIsNeverPaid, JobAt
  <1> QED
    BY <1>1, ServiceInductive, PTL

\* Once nwc_revoke has returned nothing is paid for the connection: it waits for the gate, and
\* a handler holds the gate from its last look at the connection to the confirmation.
THEOREM RevocationStopsSpending == NwcSpec => NoSpendAfterRevoke
  <1>1. SpendInv /\ ServiceInv =>
           [\A t \in Tasks : JobAt(t, "paying") /\ payments' # payments /\ gate = t
                => IsActive(job[t].request.conn)]_allVars
    BY DEF ServiceInv, HandlerInv, HandlerOK, JobAt
  <1> QED
    BY <1>1, ServiceInductive, PTL DEF NoSpendAfterRevoke

\* Store::begin admits a request as new once in its life, for any limits with
\* MAX_AGE + skew <= retention: the row is pruned only when the event is too old to be taken.
THEOREM RequestsAreNewOnce == NwcSpec => AdmittedOnce
  <1> DEFINE A == \A t \in Tasks, r \in admitted :
          job'[t] = job[t] \/ job'[t] = NoJob \/ job'[t].request # r
          \/ job'[t].at # "locked" \/ job'[t].admission # "new"
  <1>1. SpendInv /\ ServiceInv /\ [NwcNext]_allVars => [A]_allVars
    <2> SUFFICES ASSUME SpendInv, ServiceInv, NwcNext, NEW t \in Tasks, NEW r \in admitted,
                        job'[t] # job[t], job'[t] # NoJob, job'[t].request = r,
                        job'[t].at = "locked", job'[t].admission = "new"
                 PROVE  FALSE
      OBVIOUS
    <2> USE NwcAssumption
    <2>1. NwcTypeOK /\ job \in [Tasks -> Jobs \cup {NoJob}]
      BY DEF ServiceInv, HandlerInv, NwcTypeOK
    <2>2. PICK u \in Tasks : BeginRequest(u)
      <3>1. ASSUME NEW u \in Tasks, Handler(u) PROVE BeginRequest(u)
        BY <2>1, <3>1 DEF Handler, AwaitKeys, RunRequest, Ask, NotApproved, Approved, Claim, Result,
           Finish, Publish, JobGoes, JobEnds, JobAt, Jobs
      <3>2. ~WalletPart /\ ~NwcRestart /\ ~(\E i \in Conns, a \in Accounts : NwcPair(i, a))
        BY DEF WalletPart, NwcRestart, NwcPair, nwcVars
      <3>3. ~\E i \in Conns : NwcRevoke(i)
        BY <2>1 DEF NwcRevoke, Jobs
      <3>4. ~\E u \in Tasks, q \in Requests : Deliver(u, q)
        BY <2>1 DEF Deliver
      <3>5. ~\E u \in Tasks, allow \in BOOLEAN : NwcAnswer(u, allow)
        BY <2>1 DEF NwcAnswer, JobGoes, JobAt, Jobs
      <3> QED
        BY <3>1, <3>2, <3>3, <3>4, <3>5 DEF NwcNext
    <2>3. u = t
      BY <2>1, <2>2 DEF BeginRequest, JobEnds, JobAt, Jobs
    <2>4. job[t].request = r /\ job[t] # NoJob /\ job[t].at = "begin" /\ ~\E x \in Pruned : x.request = r
      BY <2>1, <2>2, <2>3 DEF BeginRequest, JobEnds, JobAt, Jobs
    <2>5. Deadline(r) > now
      BY <2>4 DEF ServiceInv, AdmittedInv, JobAt
    <2>6. Deadline(r) \in Nat /\ now \in Nat
      BY DEF Deadline, RequestEvents, ServiceInv, AdmittedInv, SpendInv, TaskInv, WalletTypeOK
    <2> QED
      BY <2>4, <2>5, <2>6, PrunedCovers
  <1> QED
    BY <1>1, ServiceInductive, PTL DEF NwcSpec, AdmittedOnce
-----------------------------------------------------------------------------
(* The register of approvals, with handlers among the tasks *)

LEMMA AskRegisters ==
    ASSUME SpendInv, Reads, Reads', NEW t \in Tasks, Ask(t)
    PROVE  R!RegisterNext
  <1>1. /\ pc' = pc /\ pc[t] = "back" /\ UNCHANGED <<epoch, issued, payments>>
        /\ \A u \in Tasks \ {t} : work'[u] = work[u]
    BY DEF Ask, SpendInv, TaskInv, WalletTypeOK
  <1>2. PICK expiry : LimitReview(work[t].id, expiry)
    BY DEF Ask
  <1>3. \A r \in approvals' : \E s \in approvals : r = s \/ r = [s EXCEPT !.expiry = expiry]
    BY <1>2 DEF LimitReview
  <1>4. \A r \in approvals' : \E s \in approvals : s.id = r.id /\ s.epoch = r.epoch
    BY <1>3 DEF SpendInv, TaskInv, WalletTypeOK, ApprovalRows
  <1>5. ~Pays(pc'[t], work'[t])
    BY <1>1 DEF Pays
  <1>6. \A h \in Handles : Stands(h)' => Stands(h)
    BY <1>1, <1>4, <1>5 DEF Stands
  <1> QED
    BY <1>1, <1>6, Lapses

LEMMA HandlerRegisters ==
    ASSUME SpendInv, Reads, Reads', NEW t \in Tasks, Handler(t)
    PROVE  R!RegisterNext
  <1>1. CASE BeginRequest(t) \/ AwaitKeys(t) \/ Finish(t) \/ Publish(t)
    BY <1>1, AsideRegisters DEF BeginRequest, AwaitKeys, Finish, Publish
  <1>2. CASE RunRequest(t)
    <2>1. UNCHANGED <<epoch, approvals, issued, payments>>
      BY <1>2 DEF RunRequest
    <2>2. CASE UNCHANGED <<pc, work>>
      BY <2>1, <2>2, RowsLapse
    <2>3. CASE ~UNCHANGED <<pc, work>>
      <3>1. \E w : Start(t, w)
        BY <1>2, <2>3 DEF RunRequest
      <3>2. /\ pc'[t] = "gate"
            /\ \A u \in Tasks \ {t} : pc'[u] = pc[u] /\ work'[u] = work[u]
        BY <3>1 DEF Start, SpendInv, TaskInv, WalletTypeOK
      <3> QED
        BY <2>1, <3>2, MovesWithout DEF Pays
    <2> QED
      BY <2>2, <2>3
  <1>3. CASE Ask(t)
    BY <1>3, AskRegisters
  <1>4. CASE NotApproved(t) \/ Approved(t) \/ Claim(t) \/ Result(t)
    <2>1. UNCHANGED <<epoch, issued, payments>> /\ approvals' \subseteq approvals
      BY <1>4 DEF NotApproved, Approved, Claim, Result, CancelReview
    <2>2. /\ pc'[t] \in {"idle", "gate", "take"}
          /\ \A u \in Tasks \ {t} : pc'[u] = pc[u] /\ work'[u] = work[u]
      BY <1>4 DEF NotApproved, Approved, Claim, Result, Resume, Goto, SpendInv, TaskInv, WalletTypeOK
    <2> QED
      BY <2>1, <2>2, MovesWithout DEF Pays
  <1> QED
    BY <1>1, <1>2, <1>3, <1>4 DEF Handler

LEMMA ServiceRegisters ==
    ASSUME SpendInv, Reads, Reads', [NwcNext]_allVars
    PROVE  R!RegisterNext
  <1>1. CASE WalletPart
    BY <1>1, TaskRegisters, LockRegisters, AsideRegisters DEF WalletPart, NwcTick
  <1>2. CASE \E t \in Tasks : Handler(t)
    BY <1>2, HandlerRegisters
  <1>3. CASE NwcRestart
    BY <1>3, LockRegisters DEF NwcRestart
  <1>4. CASE ~WalletPart /\ ~NwcRestart /\ ~\E t \in Tasks : Handler(t)
    <2>1. UNCHANGED walletVars
      BY <1>4 DEF NwcNext, Deliver, NwcAnswer, NwcPair, NwcRevoke, allVars
    <2> QED
      BY <2>1, AsideRegisters
  <1> QED
    BY <1>1, <1>2, <1>3, <1>4

\* The wallet connect service implements the register too: what handlers add (limit_review,
\* cancel_review, waiting for the user, crashes and redeliveries) opens no handle again and
\* lets none outlive a lock.
THEOREM ServiceImplementsRegister == NwcSpec => RegisterSpec
  <1>1. SpendInv => Reads
    BY RegisterReads
  <1>2. SpendInv /\ Reads /\ Reads' /\ [NwcNext]_allVars => R!RegisterNext
    BY ServiceRegisters
  <1>3. NwcInit => R!RegisterInit
    BY InitRegisters DEF NwcInit
  <1> QED
    BY <1>1, <1>2, <1>3, ServiceInductive, PTL DEF NwcSpec, RegisterSpec, R!RegisterSpec
-----------------------------------------------------------------------------
(* The ledger of invoices *)

BillPaid(b) == \E p \in AppPayments : <<p.account, p.payee>> = b
BillClaimed(b) == \E c \in claims : <<c.account, c.payee>> = b

\* What the mapped ledger says of each invoice.
LedgerReads ==
    billOf = [b \in Bills |-> IF BillPaid(b) THEN "paid"
                              ELSE IF BillClaimed(b) THEN "claimed" ELSE "free"]

LEMMA BillsRead == LedgerReads
  <1>1. \A b : /\ b \in {<<p.account, p.payee>> : p \in AppPayments} <=> BillPaid(b)
               /\ b \in {<<c.account, c.payee>> : c \in claims} <=> BillClaimed(b)
    BY DEF BillPaid, BillClaimed
  <1> QED
    BY <1>1 DEF LedgerReads, billOf

\* claims changes only in Claim.
LEMMA ClaimsStay ==
    ASSUME [NwcNext]_allVars, ~\E t \in Tasks : Claim(t)
    PROVE  claims' = claims
  BY DEF NwcNext, WalletPart, nwcVars, Handler, BeginRequest, AwaitKeys, RunRequest, Ask, NotApproved,
     Approved, Result, Finish, Publish, Deliver, NwcAnswer, NwcPair, NwcRevoke, NwcRestart, allVars

\* payments changes only in Prepare.
LEMMA PaymentsStay ==
    ASSUME SpendInv, [NwcNext]_allVars, ~\E t \in Tasks : Prepare(t)
    PROVE  payments' = payments
  <1>1. CASE WalletPart
    BY <1>1 DEF WalletPart, NwcTick, Tick, LockCommand, LockBegins, LockClears, LockEnds, Cancel,
       UnlockAccount, EnterGate, TaskStep, Open, Lookup, Quote, RecordReview, CheckSend, InsertSend,
       Take, Confirm, SelectMint, WindowCommand, WindowReview, WindowZap, WindowPay, WindowSelect
  <1>2. CASE ~WalletPart
    BY <1>2 DEF NwcNext, Handler, BeginRequest, AwaitKeys, RunRequest, Ask, NotApproved, Approved, Claim,
       Result, Finish, Publish, Deliver, NwcAnswer, NwcPair, NwcRevoke, NwcRestart, Restart, allVars,
       walletVars
  <1> QED
    BY <1>1, <1>2

\* An invoice is claimed that was free.
LEMMA ClaimBooks ==
    ASSUME SpendInv, ServiceInv, LedgerReads, LedgerReads', NEW t \in Tasks, Claim(t)
    PROVE  [L!LedgerNext]_L!ledgerVars
  <1>1. payments' = payments
    BY DEF Claim
  <1>2. CASE claims' = claims
    <2>1. billOf' = billOf
      BY <1>1, <1>2 DEF billOf, AppPayments
    <2> QED
      BY <1>1, <2>1 DEF L!ledgerVars, AppPayments
  <1>3. CASE claims' # claims
    <2> DEFINE a == Conn(job[t].request).account
               i == job[t].request.payee
               b == <<a, i>>
    <2>1. /\ claims' = claims \cup {[account |-> a, payee |-> i, request |-> job[t].request]}
          /\ ~\E c \in claims : c.account = a /\ c.payee = i
      BY <1>3 DEF Claim
    <2>2. b \in Bills
      <3>1. a \in Accounts
        BY ConnRow DEF Claim, JobAt, ServiceInv, HandlerInv, HandlerOK
      <3>2. i \in Invoices
        BY NwcAssumption DEF Claim, JobAt, ServiceInv, HandlerInv, NwcTypeOK, Jobs, RequestEvents
      <3> QED
        BY <3>1, <3>2 DEF Bills
    <2>3. ~BillClaimed(b) /\ ~BillPaid(b)
      BY <2>1 DEF BillClaimed, BillPaid, AppPayments, ServiceInv, ClaimInv, Claimed
    <2> HIDE DEF a, i
    <2>4. /\ \A d \in Bills : BillPaid(d)' <=> BillPaid(d)
          /\ \A d \in Bills : BillClaimed(d)' <=> d = b \/ BillClaimed(d)
      <3> DEFINE c == [account |-> a, payee |-> i, request |-> job[t].request]
      <3>1. claims' = claims \cup {c} /\ c.account = a /\ c.payee = i
        BY <2>1
      <3> HIDE DEF c
      <3> QED
        BY <1>1, <3>1 DEF BillClaimed, BillPaid, AppPayments
    <2> HIDE DEF b
    <2>5. billOf[b] = "free" /\ billOf' = [billOf EXCEPT ![b] = "claimed"]
      BY <2>2, <2>3, <2>4 DEF LedgerReads
    <2>6. L!ClaimBill(b)
      BY <1>1, <2>5 DEF L!ClaimBill, AppPayments
    <2> QED
      BY <2>2, <2>6 DEF L!LedgerNext
  <1> QED
    BY <1>2, <1>3
\* A handler pays for an invoice that is claimed and not paid; the window is not concerned.
LEMMA PaymentBooks ==
    ASSUME SpendInv, ServiceInv, LedgerReads, LedgerReads', NEW t \in Tasks, Prepare(t), claims' = claims
    PROVE  [L!LedgerNext]_L!ledgerVars
  <1>1. CASE AppPayments' = AppPayments
    <2>1. billOf' = billOf
      BY <1>1 DEF billOf
    <2> QED
      BY <1>1, <2>1 DEF L!ledgerVars
  <1>2. CASE AppPayments' # AppPayments
    <2>1. PICK p : /\ payments' = payments \cup {p}
                   /\ p.window = work[t].window /\ p.account = work[t].account
                   /\ p.payee = work[t].payee
      <3> DEFINE P(total) == [n |-> Cardinality(payments) + 1, id |-> work[t].id,
                   window |-> work[t].window, account |-> work[t].account, payee |-> work[t].payee,
                   mint |-> work[t].mint, total |-> total, at |-> now, bumped |-> work[t].bumped]
      <3>1. payments' # payments
        BY <1>2 DEF AppPayments
      <3>2. PICK total \in Amounts : payments' = payments \cup {P(total)}
        BY <3>1 DEF Prepare
      <3>3. /\ P(total).window = work[t].window /\ P(total).account = work[t].account
            /\ P(total).payee = work[t].payee
        OBVIOUS
      <3> QED
        BY <3>2, <3>3
    <2>2. ~p.window /\ AppPayments' = AppPayments \cup {p}
      BY <1>2, <2>1 DEF AppPayments
    <2>3. pc[t] = "prepare" /\ Placed(pc[t], work[t]) /\ work[t] \in Works
      BY DEF Prepare, Gated, SpendInv, TaskInv, Placed
    <2>4. JobAt(t, "paying")
      <3>1. HandlerOK(t)
        BY DEF ServiceInv, HandlerInv
      <3>2. job[t] # NoJob /\ job[t].at \in InWallet
        BY <2>1, <2>2, <2>3, <3>1 DEF HandlerOK
      <3>3. work[t].op = "pay"
        BY <2>3 DEF Placed
      <3> QED
        BY <2>3, <3>1, <3>2, <3>3 DEF HandlerOK, InWallet, JobAt
    <2> DEFINE b == <<work[t].account, work[t].payee>>
    <2>5. BillClaimed(b) /\ ~BillPaid(b)
      BY <2>3, <2>4 DEF ServiceInv, ClaimInv, Claimed, Unpaid, BillClaimed, BillPaid, AppPayments
    <2>6. b \in Bills
      <3>1. work[t].account \in Accounts
        BY <2>3 DEF Works
      <3>2. work[t].payee = job[t].request.payee /\ job[t].request \in Requests
        BY <2>4 DEF JobAt, ServiceInv, HandlerInv, HandlerOK, InWallet, NwcTypeOK, Jobs
      <3>3. work[t].payee \in Invoices
        BY <3>2, NwcAssumption DEF RequestEvents
      <3> QED
        BY <3>1, <3>3 DEF Bills
    <2>7. <<p.account, p.payee>> = b
      BY <2>1
    <2> HIDE DEF b
    <2>8. /\ \A d \in Bills : BillPaid(d)' <=> d = b \/ BillPaid(d)
          /\ \A d \in Bills : BillClaimed(d)' <=> BillClaimed(d)
      BY <2>2, <2>7 DEF BillClaimed, BillPaid
    <2>9. billOf[b] = "claimed" /\ billOf' = [billOf EXCEPT ![b] = "paid"]
      BY <2>5, <2>6, <2>8 DEF LedgerReads
    <2>10. Cardinality(AppPayments)' = Cardinality(AppPayments) + 1
      <3>1. IsFiniteSet(AppPayments)
        BY FS_Subset DEF AppPayments, SpendInv, TaskInv
      <3>2. p \notin AppPayments
        BY <2>5, <2>7 DEF BillPaid
      <3> QED
        BY <2>2, <3>1, <3>2, FS_AddElement
    <2>11. L!PayBill(b)
      BY <2>9, <2>10 DEF L!PayBill
    <2> QED
      BY <2>6, <2>11 DEF L!LedgerNext
  <1> QED
    BY <1>1, <1>2

LEMMA StepBooks ==
    ASSUME SpendInv, ServiceInv, LedgerReads, LedgerReads', [NwcNext]_allVars
    PROVE  [L!LedgerNext]_L!ledgerVars
  <1>1. CASE \E t \in Tasks : Claim(t)
    BY <1>1, ClaimBooks
  <1>2. CASE ~\E t \in Tasks : Claim(t)
    <2>1. claims' = claims
      BY <1>2, ClaimsStay
    <2>2. CASE \E t \in Tasks : Prepare(t)
      BY <2>1, <2>2, PaymentBooks
    <2>3. CASE ~\E t \in Tasks : Prepare(t)
      <3>1. payments' = payments
        BY <2>3, PaymentsStay
      <3>2. billOf' = billOf /\ AppPayments' = AppPayments
        BY <2>1, <3>1 DEF billOf, AppPayments
      <3> QED
        BY <3>2 DEF L!ledgerVars
    <2> QED
      BY <2>2, <2>3
  <1> QED
    BY <1>1, <1>2

\* The service implements the ledger, for any connections, requests and crashes: Store::claim
\* comes before pay_reviewed, an invoice is paid for apps once, and a claim is never forgotten.
THEOREM ServiceImplementsLedger == NwcSpec => LedgerSpec
  <1>1. NwcInit => L!LedgerInit
    <2> SUFFICES ASSUME NwcInit PROVE L!LedgerInit
      OBVIOUS
    <2>1. AppPayments = {} /\ claims = {}
      BY DEF NwcInit, WalletInit, AppPayments
    <2>2. \A b \in Bills : ~BillPaid(b) /\ ~BillClaimed(b)
      BY <2>1 DEF BillPaid, BillClaimed
    <2>3. billOf = [b \in Bills |-> "free"]
      BY <2>2, BillsRead DEF LedgerReads
    <2>4. Cardinality(AppPayments) = 0
      BY <2>1, FS_EmptySet
    <2> QED
      BY <2>3, <2>4 DEF L!LedgerInit
  <1>2. LedgerReads
    BY BillsRead
  <1>3. SpendInv /\ ServiceInv /\ LedgerReads /\ LedgerReads' /\ [NwcNext]_allVars
           => [L!LedgerNext]_L!ledgerVars
    BY StepBooks
  <1> QED
    BY <1>1, <1>2, <1>3, ServiceInductive, PTL DEF NwcSpec, LedgerSpec, L!LedgerSpec
============================================================================
