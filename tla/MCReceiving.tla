---------------------------- MODULE MCReceiving ----------------------------
(* Instances of Receiving for TLC. *)
EXTENDS Receiving

OneSlot == [q \in Quotes |-> CHOOSE s \in Slots : TRUE]

\* The provider's settings change until the first invoice whose mint falls silent; from
\* then on there are only payments to collect.
Settled == lightning = "own" /\ address = Slots
Quiet == Silent \cap known = {}

CollectNext ==
    \/ RefreshStep \/ LoopBegins
    \/ \E s \in Slots : (Quiet /\ Enable(s)) \/ (\E manual \in BOOLEAN : Open(s, manual))
    \/ \E q \in Quotes : ((q \in Silent => Settled) /\ Fund(q)) \/ PayInvoice(q)
    \/ \E q \in Quotes \ Silent : PayAddress(q)
    \/ SetOwnAddress \/ Lock \/ Unlock \/ Restart \/ Tick

CollectSpec == ReceivingInit /\ [][CollectNext]_receivingVars /\ Fairness
=============================================================================
