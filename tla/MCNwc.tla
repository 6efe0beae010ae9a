------------------------------- MODULE MCNwc -------------------------------
(* Instances of Nwc for TLC: the request events clients have signed. *)
EXTENDS Nwc, TLC

NwcSymmetry == Permutations(Handles) \cup Permutations(Tasks)

AnInvoice == CHOOSE i \in Invoices : TRUE
Event(i, c, at, life, method) ==
    [id |-> i, conn |-> c, at |-> at, life |-> life, method |-> method, payee |-> AnInvoice]

\* Two connections ask for one invoice, the first in an event dated ahead of the
\* clock, and the first one also sends what is no payment.
AllRequests ==
    LET c == CHOOSE c \in Conns : TRUE
        d == CHOOSE d \in Conns : d # c
    IN {Event("r1", c, Skew, MaxAge, "pay_invoice"), Event("r2", d, 0, MaxAge, "pay_invoice"),
        Event("r3", c, 0, MaxAge, "garbled")}

-----------------------------------------------------------------------------
\* Connections pair, ask again and again and are revoked, while the wallet is
\* locked, reviews are cancelled, the clock runs and the app dies.
PaymentNext ==
    \/ /\ \/ \E t \in Tasks : (~JobAt(t, "paying") /\ EnterGate(t)) \/ TaskStep(t)
          \/ \E a \in Accounts : UnlockAccount(a) \/ Cancel(a)
          \/ LockCommand
          \/ NwcTick
       /\ UNCHANGED nwcVars
    \/ \E t \in Tasks : Handler(t)
    \/ \E t \in Tasks, r \in Requests : Deliver(t, r)
    \/ \E t \in Tasks, allow \in BOOLEAN : NwcAnswer(t, allow)
    \/ \E i \in Conns, a \in Accounts : NwcPair(i, a)
    \/ \E i \in Conns : NwcRevoke(i)
    \/ NwcRestart

PaymentSpec == NwcInit /\ [][PaymentNext]_allVars
=============================================================================
