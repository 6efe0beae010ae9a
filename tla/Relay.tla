-------------------------------- MODULE Relay --------------------------------
(***************************************************************************)
(* The relay transport (crates/relay-transport): one account's pool, one   *)
(* connection task per relay with its own reconnect loop (connection.rs),  *)
(* a bounded queue of answers per relay (transport.rs), and on each socket *)
(* a NIP-42 session (auth.rs) that authenticates when the relay asks and   *)
(* sends once more what the relay refused for want of it.                  *)
(*                                                                         *)
(* A task is one loop over select!: an action here is one arm of it with   *)
(* the rest of the iteration (tick, health, writes).  Timers are           *)
(* nondeterministic, so is the age of events; the backoff's length is time *)
(* and left out.  Errors are told apart only from no error.                *)
(***************************************************************************)
EXTENDS Naturals, Sequences, FiniteSets, SequencesExt

CONSTANTS
    Relays,
    Events,          \* answers to publish
    Challenges,
    NoChallenge,
    MaxPending,      \* events an open socket remembers (MAX_PENDING)
    MaxAuthAttempts, \* MAX_AUTH_ATTEMPTS
    AccountQueue,    \* ACCOUNT_QUEUE
    RelayQueue,      \* RELAY_QUEUE
    MaxPublish       \* bound on the events ever published

ASSUME RelayAssumption ==
    /\ NoChallenge \notin Challenges
    /\ {MaxPending, MaxAuthAttempts, AccountQueue, RelayQueue} \subseteq Nat \ {0}
    /\ MaxPublish \in Nat

VARIABLES
    listening,  \* whether the account has a pool
    unlocked,   \* whether the vault holds the transport key
    reach,      \* relays that accept connections
    link,       \* each task: "down" while it sleeps or connects, or "up"
    session,    \* RelaySession of each open socket
    probed,     \* whether a ping waits for its pong (pong_deadline)
    queue,      \* answers waiting for each task
    inbox,      \* how many requests wait for the account's listener
    health,     \* RelayHealth: what the window is shown
    left,       \* how many more events may be published
    wire        \* history: what each socket has carried

relayVars == <<listening, unlocked, reach, link, session, probed, queue, inbox, health, left, wire>>

PendingEvent == [event : Events, waiting : BOOLEAN, retried : BOOLEAN]

\* An AUTH event is known by the number of the attempt.  fault is history: signing
\* failed, and not for a lock.
Sessions ==
    [challenge : Challenges \cup {NoChallenge}, attempted : BOOLEAN,
     attempts : 0 .. MaxAuthAttempts, pendingAuth : 0 .. MaxAuthAttempts,
     authenticated : BOOLEAN, retrySub : BOOLEAN, subRetried : BOOLEAN,
     events : Seq(PendingEvent), authError : BOOLEAN, accessError : BOOLEAN, fault : BOOLEAN]

NewSession ==
    [challenge |-> NoChallenge, attempted |-> FALSE, attempts |-> 0, pendingAuth |-> 0,
     authenticated |-> FALSE, retrySub |-> FALSE, subRetried |-> FALSE, events |-> <<>>,
     authError |-> FALSE, accessError |-> FALSE, fault |-> FALSE]

\* Per socket: how often each event was published and written, how often the
\* subscription was, the challenge each AUTH answered, and those accepted.
Wires ==
    [published : [Events -> Nat], sends : [Events -> Nat], reqs : Nat,
     auths : Seq(Challenges), accepted : SUBSET Challenges]

NewWire ==
    [published |-> [e \in Events |-> 0], sends |-> [e \in Events |-> 0], reqs |-> 0,
     auths |-> <<>>, accepted |-> {}]

Down == [connected |-> FALSE, error |-> FALSE]

RelayTypeOK ==
    /\ listening \in BOOLEAN /\ unlocked \in BOOLEAN
    /\ reach \subseteq Relays
    /\ link \in [Relays -> {"down", "up"}]
    /\ session \in [Relays -> Sessions] /\ \A r \in Relays : Len(session[r].events) <= MaxPending
    /\ probed \in [Relays -> BOOLEAN]
    /\ queue \in [Relays -> Seq(Events)] /\ \A r \in Relays : Len(queue[r]) <= RelayQueue
    /\ inbox \in 0 .. AccountQueue
    /\ health \in [Relays -> [connected : BOOLEAN, error : BOOLEAN]]
    /\ left \in 0 .. MaxPublish
    /\ wire \in [Relays -> Wires]

RelayInit ==
    /\ listening = FALSE /\ unlocked \in BOOLEAN
    /\ reach = {}
    /\ link = [r \in Relays |-> "down"]
    /\ session = [r \in Relays |-> NewSession]
    /\ probed = [r \in Relays |-> FALSE]
    /\ queue = [r \in Relays |-> <<>>]
    /\ inbox = 0
    /\ health = [r \in Relays |-> Down]
    /\ left = MaxPublish
    /\ wire = [r \in Relays |-> NewWire]

-----------------------------------------------------------------------------
(* RelaySession: each operation gives the next session and what it wants     *)
(* written: how often the subscription and each event, and the challenges    *)
(* that AUTH answers.                                                        *)

Nothing == [reqs |-> 0, events |-> [e \in Events |-> 0], auths |-> <<>>]

Quiet(s) == [session |-> s, out |-> Nothing]

\* Events are in the order they were sent, so the ones past EVENT_TTL come first.
Expired(s, n) == [s EXCEPT !.events = SubSeq(@, n + 1, Len(@))]

\* publish: the oldest of a full window makes room.
Published(s, e) ==
    LET kept == IF Len(s.events) = MaxPending THEN Tail(s.events) ELSE s.events
    IN [session |-> [s EXCEPT !.events =
                        Append(kept, [event |-> e, waiting |-> FALSE, retried |-> FALSE])],
        out |-> [Nothing EXCEPT !.events[e] = 1]]

\* The subscription if it is to be retried, and the pending events at these places.
Again(s, due) ==
    [Nothing EXCEPT !.reqs = IF s.retrySub THEN 1 ELSE 0,
        !.events = [e \in Events |-> Cardinality({i \in due : s.events[i].event = e})]]

\* Mutant: what was sent again is not marked.
RetryUnmarked(s) ==
    [session |-> [s EXCEPT !.retrySub = FALSE, !.subRetried = @ \/ s.retrySub,
                    !.events = [i \in DOMAIN @ |-> [@[i] EXCEPT !.waiting = FALSE]]],
     out |-> Again(s, {i \in DOMAIN s.events : s.events[i].waiting})]

Due(s) == {i \in DOMAIN s.events : s.events[i].waiting /\ ~s.events[i].retried}

Retry(s) ==
    [session |-> [s EXCEPT !.retrySub = FALSE, !.subRetried = s.subRetried \/ s.retrySub,
                    !.events = [i \in DOMAIN s.events |->
                        IF i \in Due(s)
                        THEN [s.events[i] EXCEPT !.waiting = FALSE, !.retried = TRUE]
                        ELSE s.events[i]]],
     out |-> Again(s, Due(s))]

\* A refusal that authentication may cure.
RetryOrWait(s) == IF s.authenticated THEN Retry(s) ELSE Quiet([s EXCEPT !.authError = TRUE])

\* Mutant: a late answer to an earlier challenge still counts.
ChallengedKeepsPending(s, c) ==
    IF s.challenge = c THEN s
    ELSE [s EXCEPT !.challenge = c, !.attempted = FALSE, !.authenticated = FALSE]

\* AUTH: a challenge seen before changes nothing.
Challenged(s, c) ==
    IF s.challenge = c THEN s
    ELSE [s EXCEPT !.challenge = c, !.attempted = FALSE, !.pendingAuth = 0,
                   !.authenticated = FALSE, !.fault = FALSE]

\* Mutant: success clears every error shown.
AuthOkClearsAll(s, status) ==
    IF status
    THEN Retry([s EXCEPT !.pendingAuth = 0, !.authenticated = TRUE, !.authError = FALSE,
                         !.accessError = FALSE])
    ELSE Quiet([s EXCEPT !.pendingAuth = 0, !.authError = TRUE])

\* OK for the AUTH event that is waited for.
AuthOk(s, status) ==
    IF status
    THEN Retry([s EXCEPT !.pendingAuth = 0, !.authenticated = TRUE, !.authError = FALSE])
    ELSE Quiet([s EXCEPT !.pendingAuth = 0, !.authError = TRUE])

\* OK for an event that is remembered; verdict "auth" is a refusal "auth-required:".
EventOk(s, e, verdict) ==
    LET i == SelectInSeq(s.events, LAMBDA p : p.event = e)
    IN IF i \notin DOMAIN s.events THEN Quiet(s)
       ELSE IF verdict = "auth" /\ ~s.events[i].retried
            THEN RetryOrWait([s EXCEPT !.events[i].waiting = TRUE])
            ELSE Quiet([s EXCEPT !.events = RemoveAt(@, i),
                                 !.accessError = @ \/ verdict # "accepted"])

\* Mutant: the subscription is taken up again only by the next AUTH.
SubscriptionLeftClosed(s, verdict) ==
    IF verdict = "auth" /\ ~s.subRetried
    THEN Quiet([s EXCEPT !.retrySub = TRUE, !.authError = TRUE])
    ELSE Quiet([s EXCEPT !.accessError = TRUE])

\* CLOSED for our subscription.
SubscriptionClosed(s, verdict) ==
    IF verdict = "auth" /\ ~s.subRetried
    THEN RetryOrWait([s EXCEPT !.retrySub = TRUE])
    ELSE Quiet([s EXCEPT !.accessError = TRUE])

\* Mutant: a locked vault uses the challenge up.
TickedLockedGivesUp(s, timedOut, signed) ==
    LET t == IF timedOut /\ s.pendingAuth # 0
             THEN [s EXCEPT !.pendingAuth = 0, !.authError = TRUE] ELSE s
    IN IF t.attempted \/ t.authenticated \/ t.challenge = NoChallenge THEN Quiet(t)
       ELSE IF t.attempts < MaxAuthAttempts /\ signed = "ok"
            THEN [session |-> [t EXCEPT !.attempts = @ + 1, !.attempted = TRUE,
                                 !.pendingAuth = t.attempts + 1, !.authError = TRUE],
                  out |-> [Nothing EXCEPT !.auths = <<t.challenge>>]]
            ELSE Quiet([t EXCEPT !.attempted = TRUE, !.authError = TRUE])

\* tick: signed is what the vault says to the challenge: a signature, "locked"
\* or another error.  Only a locked vault is asked again.
Ticked(s, timedOut, signed) ==
    LET t == IF timedOut /\ s.pendingAuth # 0
             THEN [s EXCEPT !.pendingAuth = 0, !.authError = TRUE] ELSE s
    IN CASE t.attempted \/ t.authenticated \/ t.challenge = NoChallenge -> Quiet(t)
         [] OTHER ->
              IF t.attempts >= MaxAuthAttempts
              THEN Quiet([t EXCEPT !.authError = TRUE, !.attempted = TRUE])
              ELSE CASE signed = "ok" ->
                          [session |-> [t EXCEPT !.attempts = @ + 1, !.attempted = TRUE,
                                           !.pendingAuth = t.attempts + 1, !.authError = TRUE],
                           out |-> [Nothing EXCEPT !.auths = <<t.challenge>>]]
                     [] signed = "locked" -> Quiet([t EXCEPT !.authError = TRUE])
                     [] signed = "error" ->
                          Quiet([t EXCEPT !.attempted = TRUE, !.authError = TRUE, !.fault = TRUE])

\* error(): what health shows.
Trouble(s) == s.accessError \/ s.authError

-----------------------------------------------------------------------------
(* The connection task *)

Carried(w, out) ==
    [w EXCEPT !.sends = [e \in Events |-> w.sends[e] + out.events[e]],
              !.reqs = @ + out.reqs,
              !.auths = @ \o out.auths]

\* tick, once the old events are forgotten, with whatever the timers and the vault say.
Ticks(s) ==
    {Ticked(Expired(s, n), timedOut, signed) :
        n \in 0 .. Len(s.events), timedOut \in BOOLEAN,
        signed \in IF unlocked THEN {"ok", "error"} ELSE {"locked"}}

\* The end of an iteration: got is what the arm did; then tick, health and the
\* writes.  w: what the wire has seen so far.
Iterate(r, got, w) ==
    \E t \in Ticks(got.session) :
        /\ session' = [session EXCEPT ![r] = t.session]
        /\ health' = [health EXCEPT ![r] =
              [connected |-> ~Trouble(t.session), error |-> Trouble(t.session)]]
        /\ wire' = [wire EXCEPT ![r] = Carried(Carried(w, got.out), t.out)]

Up(r) == listening /\ link[r] = "up"

\* Mutant: the loop ends with the first error.
ConnectUnlessFailed(r) ==
    /\ listening /\ link[r] = "down" /\ r \in reach /\ ~health[r].error
    /\ link' = [link EXCEPT ![r] = "up"]
    /\ session' = [session EXCEPT ![r] = NewSession]
    /\ probed' = [probed EXCEPT ![r] = FALSE]
    /\ health' = [health EXCEPT ![r] = [connected |-> TRUE, error |-> FALSE]]
    /\ wire' = [wire EXCEPT ![r] = [NewWire EXCEPT !.reqs = 1]]
    /\ UNCHANGED <<listening, unlocked, reach, queue, inbox, left>>

\* A connection is made: subscribe, and a session of its own.
Connect(r) ==
    /\ listening /\ link[r] = "down" /\ r \in reach
    /\ link' = [link EXCEPT ![r] = "up"]
    /\ session' = [session EXCEPT ![r] = NewSession]
    /\ probed' = [probed EXCEPT ![r] = FALSE]
    /\ health' = [health EXCEPT ![r] = [connected |-> TRUE, error |-> FALSE]]
    /\ wire' = [wire EXCEPT ![r] = [NewWire EXCEPT !.reqs = 1]]
    /\ UNCHANGED <<listening, unlocked, reach, queue, inbox, left>>

\* The relay refuses, or CONNECT_TIMEOUT passes.
ConnectFails(r) ==
    /\ listening /\ link[r] = "down"
    /\ health' = [health EXCEPT ![r] = [connected |-> FALSE, error |-> TRUE]]
    /\ UNCHANGED <<listening, unlocked, reach, link, session, probed, queue, inbox, left, wire>>

\* session() returns to run(), which goes round after the backoff.
Ends(r, error) ==
    /\ link' = [link EXCEPT ![r] = "down"]
    /\ session' = [session EXCEPT ![r] = NewSession]
    /\ probed' = [probed EXCEPT ![r] = FALSE]
    /\ wire' = [wire EXCEPT ![r] = NewWire]
    /\ health' = [health EXCEPT ![r] = [connected |-> FALSE, error |-> error]]

\* The relay closes the socket or a read fails (no error), or a write fails.
Disconnect(r, error) ==
    /\ Up(r)
    /\ Ends(r, error)
    /\ UNCHANGED <<listening, unlocked, reach, queue, inbox, left>>

\* The second's tick.
Ticker(r) ==
    /\ Up(r)
    /\ Iterate(r, Quiet(session[r]), wire[r])
    /\ UNCHANGED <<listening, unlocked, reach, link, probed, queue, inbox, left>>

\* receive first forgets old events: the session it then works on.
Aged(r) == {Expired(session[r], n) : n \in 0 .. Len(session[r].events)}

\* A message of the relay's: what receive made of it, and the rest of the iteration.
Received(r, results, w) ==
    /\ Up(r)
    /\ \E got \in results : Iterate(r, got, w)
    /\ UNCHANGED <<listening, unlocked, reach, link, probed, queue, inbox, left>>

ReceiveChallenge(r, c) == Received(r, {Quiet(Challenged(s, c)) : s \in Aged(r)}, wire[r])

ReceiveOversized(r) == Received(r, {Quiet([s EXCEPT !.authError = TRUE]) : s \in Aged(r)}, wire[r])

\* The relay answers the n-th AUTH of this socket, perhaps long after.
ReceiveAuthOk(r, n, status) ==
    /\ n \in DOMAIN wire[r].auths
    /\ Received(r, {IF s.pendingAuth = n THEN AuthOk(s, status) ELSE Quiet(s) : s \in Aged(r)},
                IF status THEN [wire[r] EXCEPT !.accepted = @ \cup {wire[r].auths[n]}]
                ELSE wire[r])

ReceiveEventOk(r, e, verdict) ==
    /\ wire[r].sends[e] > 0
    /\ Received(r, {EventOk(s, e, verdict) : s \in Aged(r)}, wire[r])

ReceiveClosed(r, verdict) == Received(r, {SubscriptionClosed(s, verdict) : s \in Aged(r)}, wire[r])

\* EVENT: a request for the account, dropped when the listener lags behind.
ReceiveEvent(r) ==
    /\ Up(r)
    /\ inbox' = IF inbox < AccountQueue THEN inbox + 1 ELSE inbox
    /\ Iterate(r, Quiet(session[r]), wire[r])
    /\ UNCHANGED <<listening, unlocked, reach, link, probed, queue, left>>

\* The next answer is written, or lost with the socket it was taken for.
SendQueued(r) ==
    /\ Up(r) /\ queue[r] # <<>>
    /\ queue' = [queue EXCEPT ![r] = Tail(@)]
    /\ \/ /\ Iterate(r, Published(session[r], Head(queue[r])),
                     [wire[r] EXCEPT !.published[Head(queue[r])] = @ + 1])
          /\ UNCHANGED <<link, probed>>
       \/ Ends(r, TRUE)
    /\ UNCHANGED <<listening, unlocked, reach, inbox, left>>

\* Mutant: a dead line is noticed by writing to it.
PingAgain(r) ==
    /\ Up(r)
    /\ probed' = [probed EXCEPT ![r] = TRUE]
    /\ Iterate(r, Quiet(session[r]), wire[r])
    /\ UNCHANGED link
    /\ UNCHANGED <<listening, unlocked, reach, queue, inbox, left>>

\* The ping timer, or the pong's deadline.
PingTimer(r) ==
    /\ Up(r)
    /\ IF probed[r] THEN Ends(r, TRUE)
       ELSE /\ probed' = [probed EXCEPT ![r] = TRUE]
            /\ Iterate(r, Quiet(session[r]), wire[r])
            /\ UNCHANGED link
    /\ UNCHANGED <<listening, unlocked, reach, queue, inbox, left>>

\* The pong that echoes this ping; any other is ignored.
Pong(r) ==
    /\ Up(r) /\ probed[r]
    /\ probed' = [probed EXCEPT ![r] = FALSE]
    /\ Iterate(r, Quiet(session[r]), wire[r])
    /\ UNCHANGED <<listening, unlocked, reach, link, queue, inbox, left>>

-----------------------------------------------------------------------------
(* RelayTransport *)

\* A pool of new tasks and queues takes the place of the old.
Fresh ==
    /\ link' = [r \in Relays |-> "down"]
    /\ session' = [r \in Relays |-> NewSession]
    /\ probed' = [r \in Relays |-> FALSE]
    /\ queue' = [r \in Relays |-> <<>>]
    /\ inbox' = 0
    /\ health' = [r \in Relays |-> Down]
    /\ wire' = [r \in Relays |-> NewWire]

Listen ==
    /\ listening' = TRUE
    /\ Fresh
    /\ UNCHANGED <<unlocked, reach, left>>

Stop ==
    /\ listening' = FALSE
    /\ Fresh
    /\ UNCHANGED <<unlocked, reach, left>>

\* publish: to every wanted relay whose queue has room; wanted is empty for all.
Publish(e, wanted) ==
    /\ listening /\ left > 0
    /\ queue' = [r \in Relays |->
          IF (wanted = {} \/ r \in wanted) /\ Len(queue[r]) < RelayQueue
          THEN Append(queue[r], e) ELSE queue[r]]
    /\ left' = left - 1
    /\ UNCHANGED <<listening, unlocked, reach, link, session, probed, inbox, health, wire>>

\* The account's listener (Runner) takes a request.
TakeRequest ==
    /\ inbox > 0
    /\ inbox' = inbox - 1
    /\ UNCHANGED <<listening, unlocked, reach, link, session, probed, queue, health, left, wire>>

\* The user and the network.
World ==
    /\ \/ unlocked' = ~unlocked /\ UNCHANGED reach
       \/ \E r \in Relays : reach' = (reach \ {r}) \cup ({r} \ reach) /\ UNCHANGED unlocked
    /\ UNCHANGED <<listening, link, session, probed, queue, inbox, health, left, wire>>

\* Messages a relay may send at any time.
FromRelay(r) ==
    \/ \E c \in Challenges : ReceiveChallenge(r, c)
    \/ ReceiveOversized(r)
    \/ \E n \in 1 .. MaxAuthAttempts, status \in BOOLEAN : ReceiveAuthOk(r, n, status)
    \/ \E e \in Events, verdict \in {"accepted", "auth", "other"} : ReceiveEventOk(r, e, verdict)
    \/ \E verdict \in {"auth", "other"} : ReceiveClosed(r, verdict)
    \/ ReceiveEvent(r)
    \/ Pong(r)

RelayNext ==
    \/ \E r \in Relays :
          \/ FromRelay(r) \/ Connect(r) \/ ConnectFails(r)
          \/ \E error \in BOOLEAN : Disconnect(r, error)
          \/ Ticker(r) \/ PingTimer(r) \/ SendQueued(r)
    \/ Listen \/ Stop \/ TakeRequest \/ World
    \/ \E e \in Events, wanted \in SUBSET Relays : Publish(e, wanted)

\* The tokio runtime polls every task, and every timer fires; select! picks among
\* the arms that are ready at random, so none is starved.
RelayFairness ==
    \A r \in Relays :
        WF_relayVars(Connect(r)) /\ WF_relayVars(Ticker(r)) /\ WF_relayVars(PingTimer(r))

RelaySpec == RelayInit /\ [][RelayNext]_relayVars /\ RelayFairness

-----------------------------------------------------------------------------
(* Properties *)

\* An answer is written to a socket once, and once more if the relay asks for
\* authentication, never in a loop; the same for the subscription (retry).
RetriedOnce ==
    \A r \in Relays :
        /\ wire[r].reqs <= 2
        /\ \A e \in Events : wire[r].sends[e] <= 2 * wire[r].published[e]

\* A socket counts as authenticated only on the relay's word about the challenge that
\* stands: a late acceptance of an answer to an earlier one does not do (receive).
AcceptedForItsChallenge ==
    \A r \in Relays :
        session[r].authenticated => session[r].challenge \in wire[r].accepted

\* Nothing refused for want of authentication is left behind on a socket that has it
\* (receive retries at once, and so does the acceptance).
NothingWaitsAuthenticated ==
    \A r \in Relays : session[r].authenticated =>
        /\ ~session[r].retrySub
        /\ \A i \in DOMAIN session[r].events :
              session[r].events[i].waiting => session[r].events[i].retried

\* The state is well formed, pending publications and queues within their limits, and
\* no socket that is authenticated has anything left waiting for that.
RelayInv == RelayTypeOK /\ NothingWaitsAuthenticated

\* "Subscription/publication failures must not be erased by an AUTH ack" (auth.rs): a
\* relay that refused us otherwise is not shown as connected again on that socket.
RefusalStaysShown ==
    [][\A r \in Relays :
         (link[r] = "up" /\ link'[r] = "up" /\ session[r].accessError)
            => ~health'[r].connected]_relayVars

\* A line that no longer answers pings is given up, whatever else still arrives on it:
\* a socket that stays open for good is one that echoes again and again (PONG_TIMEOUT).
DeafLineIsDropped ==
    \A r \in Relays : []<>~Up(r) \/ []<><<Pong(r)>>_relayVars

\* A challenge that found the vault locked is answered after the unlock without a
\* reconnect: "Tick also resumes a challenge received while locked" (auth.rs).
ChallengeResumes ==
    \A r \in Relays :
        LET Unanswered == /\ Up(r) /\ unlocked /\ ~session[r].fault
                          /\ session[r].challenge \notin Range(wire[r].auths) \cup {NoChallenge}
                          /\ session[r].attempts < MaxAuthAttempts
        IN Unanswered ~> ~Unanswered

\* A connection that ends for whatever reason is tried again (run).
Reconnects ==
    \A r \in Relays :
        (listening /\ r \in reach) ~> (~listening \/ r \notin reach \/ link[r] = "up")
=============================================================================
