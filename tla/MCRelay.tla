------------------------------- MODULE MCRelay -------------------------------
(* Instances of Relay for TLC. *)
EXTENDS Relay

CONSTANT FirstChallenge   \* challenges have no order of their own: one comes first

\* Everything the relay, the network and the user may do, in the places where it makes
\* a difference: a relay becomes reachable between sockets, and requests for the account,
\* which touch nothing else, come on a quiet socket.
SocketNext ==
    \/ \E r \in Relays :
          \/ \E c \in Challenges :
                /\ session[r].challenge = NoChallenge => c = FirstChallenge
                /\ ReceiveChallenge(r, c)
          \/ ReceiveOversized(r)
          \/ \E n \in 1 .. MaxAuthAttempts, status \in BOOLEAN : ReceiveAuthOk(r, n, status)
          \/ \E e \in Events, verdict \in {"accepted", "auth", "other"} :
                ReceiveEventOk(r, e, verdict)
          \/ \E verdict \in {"auth", "other"} : ReceiveClosed(r, verdict)
          \/ session[r] = NewSession /\ queue[r] = <<>> /\ ReceiveEvent(r)
          \/ Pong(r)
          \/ Connect(r) \/ ConnectFails(r)
          \/ \E error \in BOOLEAN : Disconnect(r, error)
          \/ Ticker(r) \/ PingTimer(r) \/ SendQueued(r)
    \/ Listen \/ Stop
    \/ TakeRequest /\ \A r \in Relays : session[r] = NewSession /\ queue[r] = <<>>
    \/ World /\ \A r \in Relays : link[r] = "down" \/ unlocked' # unlocked
    \/ \E e \in Events : Publish(e, {})
    \/ \E e \in Events, r \in Relays : Publish(e, {r}) /\ link[r] = "down"

SocketSpec == RelayInit /\ [][SocketNext]_relayVars /\ RelayFairness
=============================================================================
