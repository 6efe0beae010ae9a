----------------------------- MODULE RelayProofs -----------------------------
(***************************************************************************)
(* The relay sockets, for any relays, events, challenges and limits: that  *)
(* an answer is sent twice at most per publication, that a socket counts   *)
(* as authenticated for the challenge that stands, that nothing is left    *)
(* waiting on it then, and that a refusal stays shown.                     *)
(***************************************************************************)
EXTENDS Relay, FiniteSetTheorems, SequenceTheorems, TLAPS

\* Places of the pending copies of an event that may still be sent again.
Open(events, e) == {i \in DOMAIN events : events[i].event = e /\ ~events[i].retried}

\* What was written once or twice, against what was published.
Counted(s, w) ==
    /\ w.reqs <= IF s.subRetried THEN 2 ELSE 1
    /\ s.retrySub => ~s.subRetried
    /\ \A e \in Events : w.sends[e] + Cardinality(Open(s.events, e)) <= 2 * w.published[e]

\* The AUTH that is waited for answers the challenge that stands, and its acceptance is
\* what authenticates.
Answering(s, w) ==
    /\ Len(w.auths) = s.attempts
    /\ s.pendingAuth # 0 => s.pendingAuth \in 1 .. s.attempts /\ w.auths[s.pendingAuth] = s.challenge
    /\ s.authenticated => s.challenge \in w.accepted

\* A socket's session and what it carried ...
Fits(s, w) ==
    /\ s \in Sessions /\ Len(s.events) <= MaxPending /\ w \in Wires
    /\ Counted(s, w)
    /\ Answering(s, w)

\* ... with nothing left to retry.
Settled(s) ==
    s.authenticated =>
        /\ ~s.retrySub
        /\ \A i \in DOMAIN s.events : s.events[i].waiting => s.events[i].retried

Sound(s, w) == Fits(s, w) /\ Settled(s)

\* The types, the sessions, and what the window is shown of them.
SocketInv ==
    /\ RelayTypeOK
    /\ \A r \in Relays : Sound(session[r], wire[r])
    /\ \A r \in Relays : link[r] = "up" => health[r].connected = ~Trouble(session[r])

LEMMA Limits ==
    /\ MaxPending \in Nat \ {0} /\ MaxAuthAttempts \in Nat \ {0}
    /\ AccountQueue \in Nat \ {0} /\ RelayQueue \in Nat \ {0}
    /\ 0 \in 0 .. MaxAuthAttempts
  <1>1. /\ MaxPending \in Nat \ {0} /\ MaxAuthAttempts \in Nat \ {0}
        /\ AccountQueue \in Nat \ {0} /\ RelayQueue \in Nat \ {0}
    BY RelayAssumption
  <1> QED
    BY <1>1

-----------------------------------------------------------------------------
(* Counting *)

LEMMA OpenIsFinite ==
    ASSUME NEW events \in Seq(PendingEvent), NEW e
    PROVE  IsFiniteSet(Open(events, e)) /\ Cardinality(Open(events, e)) \in Nat
  <1>1. DOMAIN events = 1 .. Len(events) /\ Len(events) \in Nat
    OBVIOUS
  <1>2. IsFiniteSet(1 .. Len(events))
    BY <1>1, FS_Interval
  <1>3. Open(events, e) \in SUBSET (1 .. Len(events))
    BY <1>1 DEF Open
  <1> QED
    BY <1>2, <1>3, FS_Subset, FS_CardinalityType

\* Fewer copies, in other places.
LEMMA FewerOpen ==
    ASSUME NEW old \in Seq(PendingEvent), NEW new \in Seq(PendingEvent), NEW e,
           NEW f \in [DOMAIN new -> DOMAIN old],
           \A i, j \in DOMAIN new : f[i] = f[j] => i = j,
           \A i \in DOMAIN new : new[i] = old[f[i]]
    PROVE  Cardinality(Open(new, e)) <= Cardinality(Open(old, e))
  <1> DEFINE g == [i \in Open(new, e) |-> f[i]]
  <1>1. g \in [Open(new, e) -> Open(old, e)]
    BY DEF Open
  <1>2. \A i, j \in Open(new, e) : g[i] = g[j] => i = j
    BY DEF Open
  <1> HIDE DEF g
  <1>3. g \in Injection(Open(new, e), Open(old, e))
    BY <1>1, <1>2 DEF Injection, IsInjective
  <1> QED
    BY <1>3, OpenIsFinite, FS_Injection

LEMMA DropFirst ==
    ASSUME NEW old \in Seq(PendingEvent), NEW n \in 0 .. Len(old), NEW e
    PROVE  LET new == SubSeq(old, n + 1, Len(old))
           IN /\ new \in Seq(PendingEvent) /\ Len(new) = Len(old) - n
              /\ \A i \in DOMAIN new : i + n \in DOMAIN old /\ new[i] = old[i + n]
              /\ Cardinality(Open(new, e)) <= Cardinality(Open(old, e))
  <1> DEFINE new == SubSeq(old, n + 1, Len(old))
             f == [i \in DOMAIN new |-> i + n]
  <1>1. new \in Seq(PendingEvent) /\ Len(new) = Len(old) - n
    OBVIOUS
  <1>2. \A i \in DOMAIN new : i \in Nat /\ i + n \in DOMAIN old /\ new[i] = old[i + n]
    BY <1>1
  <1> HIDE DEF new
  <1>3. f \in [DOMAIN new -> DOMAIN old] /\ \A i \in DOMAIN new : f[i] = i + n
    BY <1>2
  <1> HIDE DEF f
  <1>4. \A i, j \in DOMAIN new : f[i] = f[j] => i = j
    BY <1>2, <1>3
  <1>5. Cardinality(Open(new, e)) <= Cardinality(Open(old, e))
    BY <1>1, <1>2, <1>3, <1>4, FewerOpen
  <1> QED
    BY <1>1, <1>2, <1>5 DEF new

LEMMA DropOne ==
    ASSUME NEW old \in Seq(PendingEvent), NEW n \in DOMAIN old, NEW e
    PROVE  LET new == RemoveAt(old, n)
           IN /\ new \in Seq(PendingEvent) /\ Len(new) = Len(old) - 1
              /\ \A i \in DOMAIN new : \E j \in DOMAIN old : new[i] = old[j]
              /\ Cardinality(Open(new, e)) <= Cardinality(Open(old, e))
  <1> DEFINE new == RemoveAt(old, n)
             f == [i \in DOMAIN new |-> IF i < n THEN i ELSE i + 1]
  <1>1. new \in Seq(PendingEvent) /\ Len(new) = Len(old) - 1
    BY DEF RemoveAt
  <1>2. \A i \in DOMAIN new : /\ i \in Nat /\ (IF i < n THEN i ELSE i + 1) \in DOMAIN old
                              /\ new[i] = old[IF i < n THEN i ELSE i + 1]
    <2> DEFINE a == SubSeq(old, 1, n - 1)
               b == SubSeq(old, n + 1, Len(old))
    <2>1. a \in Seq(PendingEvent) /\ Len(a) = n - 1 /\ \A i \in 1 .. n - 1 : a[i] = old[i]
      OBVIOUS
    <2>2. /\ b \in Seq(PendingEvent) /\ Len(b) = Len(old) - n
          /\ \A i \in 1 .. Len(old) - n : b[i] = old[n + i]
      OBVIOUS
    <2>3. new = a \o b
      BY DEF RemoveAt
    <2> HIDE DEF a, b, new
    <2>4. \A i \in 1 .. Len(old) - 1 : new[i] = IF i <= n - 1 THEN a[i] ELSE b[i - (n - 1)]
      <3>1. Len(a) + Len(b) = Len(old) - 1
        BY <2>1, <2>2
      <3>2. \A i \in 1 .. Len(a) + Len(b) : (a \o b)[i] = IF i <= Len(a) THEN a[i] ELSE b[i - Len(a)]
        BY <2>1, <2>2, ConcatProperties
      <3> QED
        BY <2>1, <2>3, <3>1, <3>2
    <2>5. DOMAIN new = 1 .. Len(old) - 1
      BY <1>1
    <2>6. ASSUME NEW i \in 1 .. Len(old) - 1
          PROVE  new[i] = old[IF i < n THEN i ELSE i + 1]
      <3>1. CASE i < n
        BY <2>1, <2>4, <3>1
      <3>2. CASE ~(i < n)
        <4>1. i - (n - 1) \in 1 .. Len(old) - n
          BY <3>2
        <4>2. new[i] = b[i - (n - 1)]
          BY <2>4, <3>2
        <4>3. b[i - (n - 1)] = old[n + (i - (n - 1))]
          BY <2>2, <4>1
        <4> QED
          BY <3>2, <4>2, <4>3
      <3> QED
        BY <3>1, <3>2
    <2> QED
      BY <2>5, <2>6
  <1> HIDE DEF new
  <1>3. /\ f \in [DOMAIN new -> DOMAIN old]
        /\ \A i \in DOMAIN new : f[i] = IF i < n THEN i ELSE i + 1
    BY <1>2
  <1> HIDE DEF f
  <1>4. \A i, j \in DOMAIN new : f[i] = f[j] => i = j
    BY <1>2, <1>3
  <1>5. \A i \in DOMAIN new : new[i] = old[f[i]] /\ f[i] \in DOMAIN old
    BY <1>2, <1>3
  <1>6. Cardinality(Open(new, e)) <= Cardinality(Open(old, e))
    BY <1>1, <1>3, <1>4, <1>5, FewerOpen
  <1> QED
    BY <1>1, <1>5, <1>6 DEF new

-----------------------------------------------------------------------------
(* The operations of a session *)

LEMMA NothingCarried ==
    ASSUME NEW w \in Wires
    PROVE  Carried(w, Nothing) = w
  <1>1. [e \in Events |-> w.sends[e] + Nothing.events[e]] = w.sends
    BY DEF Wires, Nothing
  <1>2. w.reqs + Nothing.reqs = w.reqs /\ w.auths \o Nothing.auths = w.auths
    BY DEF Wires, Nothing
  <1> QED
    BY <1>1, <1>2 DEF Carried, Wires

LEMMA NewIsSound == Sound(NewSession, NewWire)
  <1> USE RelayAssumption
  <1>1. NewSession \in Sessions /\ NewWire \in Wires
    BY DEF NewSession, Sessions, NewWire, Wires
  <1>2. \A e : Open(<<>>, e) = {}
    BY DEF Open
  <1>3. \A e \in Events : Cardinality(Open(<<>>, e)) = 0
    BY <1>2, FS_EmptySet
  <1>4. Counted(NewSession, NewWire)
    BY <1>3 DEF NewSession, NewWire, Counted
  <1>5. Counted(NewSession, NewWire) /\ Answering(NewSession, NewWire)
    BY <1>4 DEF NewSession, NewWire, Answering
  <1> QED
    BY <1>1, <1>5 DEF Sound, Fits, Settled, NewSession

\* The subscription, written when the socket opens.
LEMMA SubscribedIsSound == Sound(NewSession, [NewWire EXCEPT !.reqs = 1])
  <1> DEFINE w == [NewWire EXCEPT !.reqs = 1]
  <1>1. /\ w \in Wires /\ w.sends = NewWire.sends /\ w.published = NewWire.published
        /\ w.auths = NewWire.auths /\ w.accepted = NewWire.accepted /\ w.reqs = 1
    <2>1. NewWire \in Wires
      BY NewIsSound DEF Sound, Fits
    <2> QED
      BY <2>1 DEF Wires
  <1> HIDE DEF w
  <1>2. Counted(NewSession, w) /\ Answering(NewSession, w)
    BY <1>1, NewIsSound DEF Sound, Fits, Counted, Answering, NewSession
  <1>3. Sound(NewSession, w)
    BY <1>1, <1>2, NewIsSound DEF Sound, Fits
  <1> QED
    BY <1>3 DEF w

LEMMA ExpiredSound ==
    ASSUME NEW s, NEW w, Sound(s, w), NEW n \in 0 .. Len(s.events)
    PROVE  Sound(Expired(s, n), w) /\ Expired(s, n).accessError = s.accessError
  <1> DEFINE t == Expired(s, n)
             new == SubSeq(s.events, n + 1, Len(s.events))
  <1>1. s \in Sessions /\ s.events \in Seq(PendingEvent) /\ Len(s.events) \in Nat
    BY DEF Sound, Fits, Sessions
  <1>2. /\ t.challenge = s.challenge /\ t.attempts = s.attempts /\ t.pendingAuth = s.pendingAuth
        /\ t.authenticated = s.authenticated /\ t.retrySub = s.retrySub
        /\ t.subRetried = s.subRetried /\ t.accessError = s.accessError /\ t.events = new
    BY <1>1 DEF Expired, Sessions
  <1>3. new \in Seq(PendingEvent) /\ Len(new) = Len(s.events) - n
    BY <1>1, DropFirst
  <1>4. \A e : Cardinality(Open(new, e)) <= Cardinality(Open(s.events, e))
    BY <1>1, DropFirst
  <1>5. \A i \in DOMAIN new : i + n \in DOMAIN s.events /\ new[i] = s.events[i + n]
    BY <1>1, DropFirst
  <1>6. t \in Sessions
    BY <1>1, <1>3 DEF Expired, Sessions
  <1> HIDE DEF t, new
  <1>7. ASSUME NEW e \in Events
        PROVE  w.sends[e] + Cardinality(Open(t.events, e)) <= 2 * w.published[e]
    <2>1. Cardinality(Open(new, e)) \in Nat /\ Cardinality(Open(s.events, e)) \in Nat
      BY <1>1, <1>3, OpenIsFinite
    <2>2. w.sends[e] \in Nat /\ w.published[e] \in Nat
      BY DEF Sound, Fits, Wires
    <2>3. w.sends[e] + Cardinality(Open(s.events, e)) <= 2 * w.published[e]
      BY DEF Sound, Fits, Counted
    <2> QED
      BY <1>2, <1>4, <2>1, <2>2, <2>3
  <1>8. Counted(t, w) /\ Answering(t, w)
    BY <1>2, <1>7 DEF Sound, Fits, Counted, Answering
  <1>9. Settled(t)
    BY <1>2, <1>5 DEF Sound, Settled
  <1>10. Len(t.events) <= MaxPending
    BY <1>1, <1>2, <1>3, RelayAssumption DEF Sound, Fits
  <1> QED
    BY <1>2, <1>6, <1>8, <1>9, <1>10 DEF Sound, Fits, t

\* A session that differs from a sound one in its errors only, or forgets an AUTH.
LEMMA Relabelled ==
    ASSUME NEW s, NEW w, Sound(s, w), NEW t \in Sessions, t.events = s.events,
           t.challenge = s.challenge, t.attempts = s.attempts, t.pendingAuth \in {0, s.pendingAuth},
           t.authenticated = s.authenticated, t.retrySub = s.retrySub, t.subRetried = s.subRetried
    PROVE  Sound(t, w)
  BY DEF Sound, Fits, Counted, Answering, Settled

\* What retry sends is no longer open.
LEMMA RetrySound ==
    ASSUME NEW s, NEW w, Fits(s, w)
    PROVE  /\ Sound(Retry(s).session, Carried(w, Retry(s).out))
           /\ Retry(s).session.accessError = s.accessError
  <1> DEFINE t == Retry(s).session
             out == Retry(s).out
             v == Carried(w, out)
             again == [e \in Events |-> Cardinality({i \in Due(s) : s.events[i].event = e})]
  <1>1. /\ s \in Sessions /\ s.events \in Seq(PendingEvent) /\ Len(s.events) \in Nat
        /\ DOMAIN s.events = 1 .. Len(s.events) /\ w \in Wires
        /\ s.retrySub \in BOOLEAN /\ s.subRetried \in BOOLEAN
    BY DEF Fits, Sessions
  <1>2. /\ t.challenge = s.challenge /\ t.attempts = s.attempts /\ t.pendingAuth = s.pendingAuth
        /\ t.authenticated = s.authenticated /\ t.retrySub = FALSE
        /\ t.subRetried = (s.subRetried \/ s.retrySub) /\ t.accessError = s.accessError
        /\ t.events = [i \in DOMAIN s.events |->
                        IF i \in Due(s)
                        THEN [s.events[i] EXCEPT !.waiting = FALSE, !.retried = TRUE]
                        ELSE s.events[i]]
    BY <1>1 DEF Retry, Sessions
  <1>3. /\ t.events \in Seq(PendingEvent) /\ Len(t.events) = Len(s.events)
        /\ DOMAIN t.events = DOMAIN s.events
    <2> DEFINE x(i) == [s.events[i] EXCEPT !.waiting = FALSE, !.retried = TRUE]
    <2>1. \A i \in 1 .. Len(s.events) : s.events[i] \in PendingEvent /\ x(i) \in PendingEvent
      <3>1. \A p \in PendingEvent : [p EXCEPT !.waiting = FALSE, !.retried = TRUE] \in PendingEvent
        BY DEF PendingEvent
      <3>2. \A i \in 1 .. Len(s.events) : s.events[i] \in PendingEvent
        BY <1>1
      <3> QED
        BY <3>1, <3>2
    <2> HIDE DEF t, x
    <2>2. t.events = [i \in 1 .. Len(s.events) |-> IF i \in Due(s) THEN x(i) ELSE s.events[i]]
      BY <1>1, <1>2 DEF x
    <2> QED
      BY <1>1, <2>1, <2>2
  <1>4. \A i \in DOMAIN s.events :
          /\ i \in Due(s) => t.events[i].event = s.events[i].event /\ t.events[i].retried
                             /\ ~t.events[i].waiting
          /\ i \notin Due(s) => t.events[i] = s.events[i]
    <2> HIDE DEF t
    <2>1. ASSUME NEW i \in DOMAIN s.events, i \in Due(s)
          PROVE  t.events[i].event = s.events[i].event /\ t.events[i].retried /\ ~t.events[i].waiting
      <3>1. s.events[i] \in PendingEvent
        BY <1>1
      <3>2. t.events[i] = [s.events[i] EXCEPT !.waiting = FALSE, !.retried = TRUE]
        BY <1>2, <2>1
      <3> QED
        BY <3>1, <3>2 DEF PendingEvent
    <2> QED
      BY <1>2, <2>1
  <1>5. t \in Sessions
    BY <1>1, <1>3, <1>2 DEF Retry, Sessions
  <1>6. /\ out.reqs = (IF s.retrySub THEN 1 ELSE 0) /\ out.auths = <<>>
        /\ out.events = again
    BY DEF Retry, Again, Nothing
  <1>7. ASSUME NEW e \in Events
        PROVE  /\ again[e] \in Nat
               /\ Cardinality(Open(t.events, e)) + again[e] = Cardinality(Open(s.events, e))
    <2> DEFINE D == {i \in Due(s) : s.events[i].event = e}
    <2>1. Open(t.events, e) = Open(s.events, e) \ D
      BY <1>3, <1>4 DEF Open, Due
    <2>2. Open(s.events, e) \cap D = D
      BY DEF Open, Due
    <2>3. again[e] = Cardinality(D)
      OBVIOUS
    <2>4. D \in SUBSET Open(s.events, e)
      BY <2>2
    <2>5. IsFiniteSet(Open(s.events, e)) /\ Cardinality(Open(s.events, e)) \in Nat
      BY <1>1, OpenIsFinite
    <2> HIDE DEF D, again
    <2>6. IsFiniteSet(D) /\ Cardinality(D) \in Nat
      BY <2>4, <2>5, FS_Subset, FS_CardinalityType
    <2>7. Cardinality(Open(s.events, e) \ D) = Cardinality(Open(s.events, e)) - Cardinality(D)
      BY <2>2, <2>5, FS_Difference
    <2> QED
      BY <2>1, <2>3, <2>5, <2>6, <2>7
  <1>8. again = [e \in Events |-> again[e]]
    OBVIOUS
  <1> HIDE DEF t, out, again
  <1>9. /\ v \in Wires /\ v.published = w.published /\ v.accepted = w.accepted /\ v.auths = w.auths
        /\ v.reqs = w.reqs + (IF s.retrySub THEN 1 ELSE 0)
        /\ \A e \in Events : v.sends[e] = w.sends[e] + again[e]
    <2>1. w.auths \o <<>> = w.auths
      BY <1>1, ConcatEmptySeq DEF Wires
    <2>2. [e \in Events |-> w.sends[e] + again[e]] \in [Events -> Nat]
      BY <1>1, <1>7 DEF Wires
    <2> DEFINE S2 == [e \in Events |-> w.sends[e] + again[e]]
               R2 == w.reqs + (IF s.retrySub THEN 1 ELSE 0)
    <2>3. R2 \in Nat
      BY <1>1 DEF Wires
    <2>4. v = [w EXCEPT !.sends = S2, !.reqs = R2, !.auths = w.auths]
      BY <1>6, <2>1 DEF Carried
    <2>5. \A e \in Events : S2[e] = w.sends[e] + again[e]
      OBVIOUS
    <2> HIDE DEF S2, R2, v
    <2>6. v \in Wires /\ v.sends = S2 /\ v.reqs = R2 /\ v.auths = w.auths
            /\ v.published = w.published /\ v.accepted = w.accepted
      BY <1>1, <2>2, <2>3, <2>4 DEF Wires, S2
    <2> QED
      BY <2>5, <2>6 DEF R2
  <1> HIDE DEF v
  <1>10. ASSUME NEW e \in Events
         PROVE  v.sends[e] + Cardinality(Open(t.events, e)) <= 2 * v.published[e]
    <2>1. Cardinality(Open(t.events, e)) \in Nat /\ Cardinality(Open(s.events, e)) \in Nat
      BY <1>1, <1>3, OpenIsFinite
    <2>2. w.sends[e] \in Nat /\ w.published[e] \in Nat
      BY <1>1 DEF Wires
    <2>3. w.sends[e] + Cardinality(Open(s.events, e)) <= 2 * w.published[e]
      BY DEF Fits, Counted
    <2> QED
      BY <1>7, <1>9, <2>1, <2>2, <2>3
  <1>11. v.reqs <= IF t.subRetried THEN 2 ELSE 1
    <2>1. w.reqs \in Nat /\ w.reqs <= (IF s.subRetried THEN 2 ELSE 1) /\ (s.retrySub => ~s.subRetried)
      BY <1>1 DEF Fits, Counted, Wires
    <2>2. CASE s.retrySub
      <3>1. t.subRetried /\ ~s.subRetried
        BY <1>2, <2>1, <2>2
      <3>2. w.reqs <= 1 /\ v.reqs = w.reqs + 1
        BY <1>9, <2>1, <2>2, <3>1
      <3> QED
        BY <2>1, <3>1, <3>2
    <2>3. CASE ~s.retrySub
      <3>1. t.subRetried = s.subRetried
        BY <1>1, <1>2, <2>3
      <3> QED
        BY <1>9, <2>1, <2>3, <3>1
    <2> QED
      BY <2>2, <2>3
  <1>12. Counted(t, v) /\ Answering(t, v)
    BY <1>2, <1>9, <1>10, <1>11 DEF Fits, Counted, Answering
  <1>13. Settled(t)
    BY <1>2, <1>3, <1>4 DEF Settled, Due
  <1> QED
    BY <1>2, <1>3, <1>5, <1>9, <1>12, <1>13 DEF Sound, Fits, t, v, out

\* A socket that is not authenticated has nothing to settle.
LEMMA RetryOrWaitSound ==
    ASSUME NEW s, NEW w, Fits(s, w)
    PROVE  /\ Sound(RetryOrWait(s).session, Carried(w, RetryOrWait(s).out))
           /\ RetryOrWait(s).session.accessError = s.accessError
  <1>1. CASE s.authenticated
    BY <1>1, RetrySound DEF RetryOrWait
  <1>2. CASE ~s.authenticated
    <2> DEFINE t == [s EXCEPT !.authError = TRUE]
    <2>1. s \in Sessions /\ w \in Wires
      BY DEF Fits
    <2>2. /\ t \in Sessions /\ t.events = s.events /\ t.challenge = s.challenge
          /\ t.attempts = s.attempts /\ t.pendingAuth = s.pendingAuth
          /\ t.authenticated = s.authenticated /\ t.retrySub = s.retrySub
          /\ t.subRetried = s.subRetried /\ t.accessError = s.accessError
      BY <2>1 DEF Sessions
    <2>3. RetryOrWait(s).session = t /\ Carried(w, RetryOrWait(s).out) = w
      BY <1>2, <2>1, NothingCarried DEF RetryOrWait, Quiet
    <2> HIDE DEF t
    <2>4. Settled(s)
      BY <1>2 DEF Settled
    <2>5. Sound(s, w)
      BY <2>4 DEF Sound
    <2> QED
      BY <2>2, <2>3, <2>5, Relabelled
  <1> QED
    BY <1>1, <1>2

LEMMA ClosedSound ==
    ASSUME NEW s, NEW w, Sound(s, w), NEW verdict
    PROVE  LET got == SubscriptionClosed(s, verdict)
           IN /\ Sound(got.session, Carried(w, got.out))
              /\ s.accessError => got.session.accessError
  <1>1. s \in Sessions /\ w \in Wires /\ Fits(s, w)
    BY DEF Sound, Fits
  <1>2. CASE verdict = "auth" /\ ~s.subRetried
    <2> DEFINE t == [s EXCEPT !.retrySub = TRUE]
    <2>1. /\ t \in Sessions /\ t.events = s.events /\ t.challenge = s.challenge
          /\ t.attempts = s.attempts /\ t.pendingAuth = s.pendingAuth
          /\ t.authenticated = s.authenticated /\ t.retrySub = TRUE
          /\ t.subRetried = s.subRetried /\ t.accessError = s.accessError
      BY <1>1 DEF Sessions
    <2>2. SubscriptionClosed(s, verdict) = RetryOrWait(t)
      BY <1>2 DEF SubscriptionClosed
    <2> HIDE DEF t
    <2>3. Fits(t, w)
      BY <1>1, <1>2, <2>1 DEF Fits, Counted, Answering
    <2> QED
      BY <2>1, <2>2, <2>3, RetryOrWaitSound
  <1>3. CASE ~(verdict = "auth" /\ ~s.subRetried)
    <2> DEFINE t == [s EXCEPT !.accessError = TRUE]
    <2>1. /\ t \in Sessions /\ t.events = s.events /\ t.challenge = s.challenge
          /\ t.attempts = s.attempts /\ t.pendingAuth = s.pendingAuth
          /\ t.authenticated = s.authenticated /\ t.retrySub = s.retrySub
          /\ t.subRetried = s.subRetried /\ t.accessError
      BY <1>1 DEF Sessions
    <2>2. /\ SubscriptionClosed(s, verdict).session = t
          /\ Carried(w, SubscriptionClosed(s, verdict).out) = w
      BY <1>1, <1>3, NothingCarried DEF SubscriptionClosed, Quiet
    <2> HIDE DEF t
    <2> QED
      BY <2>1, <2>2, Relabelled
  <1> QED
    BY <1>2, <1>3

LEMMA AuthOkSound ==
    ASSUME NEW s, NEW w, Sound(s, w), NEW n \in 1 .. Len(w.auths), s.pendingAuth = n,
           NEW status \in BOOLEAN, NEW v,
           v = IF status THEN [w EXCEPT !.accepted = @ \cup {w.auths[n]}] ELSE w
    PROVE  LET got == AuthOk(s, status)
           IN /\ Sound(got.session, Carried(v, got.out))
              /\ s.accessError => got.session.accessError
  <1>1. s \in Sessions /\ w \in Wires /\ Fits(s, w)
    BY DEF Sound, Fits
  <1>2. CASE status
    <2> DEFINE t == [s EXCEPT !.pendingAuth = 0, !.authenticated = TRUE, !.authError = FALSE]
    <2>1. /\ t \in Sessions /\ t.events = s.events /\ t.challenge = s.challenge
          /\ t.attempts = s.attempts /\ t.pendingAuth = 0
          /\ t.authenticated = TRUE /\ t.retrySub = s.retrySub
          /\ t.subRetried = s.subRetried /\ t.accessError = s.accessError
      BY <1>1, Limits DEF Sessions
    <2>2. AuthOk(s, status) = Retry(t)
      BY <1>2 DEF AuthOk
    <2>3. /\ v.accepted = w.accepted \cup {w.auths[n]} /\ v.reqs = w.reqs /\ v.sends = w.sends
          /\ v.published = w.published /\ v.auths = w.auths
      BY <1>1, <1>2 DEF Wires
    <2>4. w.auths[n] = s.challenge /\ w.auths[n] \in Challenges
      BY <1>1 DEF Fits, Answering, Wires
    <2>5. v \in Wires
      BY <1>1, <1>2, <2>4 DEF Wires
    <2> HIDE DEF t
    <2>6. Fits(t, v)
      BY <1>1, <2>1, <2>3, <2>4, <2>5 DEF Fits, Counted, Answering
    <2> QED
      BY <2>1, <2>2, <2>6, RetrySound
  <1>3. CASE ~status
    <2> DEFINE t == [s EXCEPT !.pendingAuth = 0, !.authError = TRUE]
    <2>1. /\ t \in Sessions /\ t.events = s.events /\ t.challenge = s.challenge
          /\ t.attempts = s.attempts /\ t.pendingAuth = 0
          /\ t.authenticated = s.authenticated /\ t.retrySub = s.retrySub
          /\ t.subRetried = s.subRetried /\ t.accessError = s.accessError
      BY <1>1, Limits DEF Sessions
    <2>2. AuthOk(s, status).session = t /\ Carried(v, AuthOk(s, status).out) = w
      BY <1>1, <1>3, NothingCarried DEF AuthOk, Quiet
    <2> HIDE DEF t
    <2> QED
      BY <2>1, <2>2, Relabelled
  <1> QED
    BY <1>2, <1>3

LEMMA ChallengedSound ==
    ASSUME NEW s, NEW w, Sound(s, w), NEW c \in Challenges
    PROVE  Sound(Challenged(s, c), w) /\ Challenged(s, c).accessError = s.accessError
  <1>1. s \in Sessions /\ w \in Wires /\ Fits(s, w)
    BY DEF Sound, Fits
  <1>2. CASE s.challenge # c
    <2> DEFINE t == Challenged(s, c)
    <2>1. /\ t \in Sessions /\ t.events = s.events
          /\ t.attempts = s.attempts /\ t.pendingAuth = 0
          /\ t.authenticated = FALSE /\ t.retrySub = s.retrySub
          /\ t.subRetried = s.subRetried /\ t.accessError = s.accessError
      BY <1>1, <1>2, Limits DEF Sessions, Challenged
    <2> HIDE DEF t
    <2>2. Sound(t, w)
      BY <1>1, <2>1 DEF Sound, Settled, Fits, Counted, Answering
    <2> QED
      BY <2>1, <2>2 DEF t
  <1> QED
    BY <1>2 DEF Challenged

\* The oldest makes room; the new copy may be sent once more.
LEMMA PublishedSound ==
    ASSUME NEW s, NEW w, Sound(s, w), NEW e \in Events, NEW v,
           v = [w EXCEPT !.published[e] = @ + 1]
    PROVE  LET got == Published(s, e)
           IN /\ Sound(got.session, Carried(v, got.out))
              /\ got.session.accessError = s.accessError
  <1> DEFINE kept == IF Len(s.events) = MaxPending THEN Tail(s.events) ELSE s.events
             p == [event |-> e, waiting |-> FALSE, retried |-> FALSE]
             new == Append(kept, p)
             t == Published(s, e).session
             out == Published(s, e).out
             u == Carried(v, out)
  <1>1. /\ s \in Sessions /\ w \in Wires /\ Fits(s, w) /\ s.events \in Seq(PendingEvent)
        /\ Len(s.events) \in Nat /\ Len(s.events) <= MaxPending
    BY DEF Sound, Fits, Sessions
  <1>2. /\ kept \in Seq(PendingEvent) /\ Len(kept) < MaxPending
        /\ \A i \in DOMAIN kept : \E j \in DOMAIN s.events : kept[i] = s.events[j]
        /\ \A x : Cardinality(Open(kept, x)) <= Cardinality(Open(s.events, x))
    <2>1. CASE Len(s.events) = MaxPending
      <3>1. Len(s.events) > 0 /\ 1 \in 0 .. Len(s.events)
        BY <1>1, <2>1, Limits
      <3>2. kept = SubSeq(s.events, 1 + 1, Len(s.events))
        BY <1>1, <2>1, <3>1, TailIsSubSeq
      <3> HIDE DEF kept
      <3>3. /\ kept \in Seq(PendingEvent) /\ Len(kept) = Len(s.events) - 1
            /\ \A i \in DOMAIN kept : i + 1 \in DOMAIN s.events /\ kept[i] = s.events[i + 1]
        BY <1>1, <3>1, <3>2, DropFirst
      <3>4. \A x : Cardinality(Open(kept, x)) <= Cardinality(Open(s.events, x))
        BY <1>1, <3>1, <3>2, DropFirst
      <3> QED
        BY <2>1, <3>3, <3>4, Limits
    <2>2. CASE Len(s.events) # MaxPending
      <3>1. kept = s.events
        BY <2>2
      <3> HIDE DEF kept
      <3>2. \A x : Cardinality(Open(s.events, x)) \in Nat
        BY <1>1, OpenIsFinite
      <3> QED
        BY <1>1, <2>2, <3>1, <3>2, Limits
    <2> QED
      BY <2>1, <2>2
  <1>3. p \in PendingEvent
    BY DEF PendingEvent
  <1>4. /\ t.challenge = s.challenge /\ t.attempts = s.attempts /\ t.pendingAuth = s.pendingAuth
        /\ t.authenticated = s.authenticated /\ t.retrySub = s.retrySub
        /\ t.subRetried = s.subRetried /\ t.accessError = s.accessError /\ t.events = new
    BY <1>1 DEF Published, Sessions
  <1>5. t = [s EXCEPT !.events = new] /\ out = [Nothing EXCEPT !.events[e] = 1]
    BY DEF Published
  <1>6. ~p.retried /\ ~p.waiting /\ p.event = e
    OBVIOUS
  <1> HIDE DEF kept, p, t, out
  <1>7. /\ new \in Seq(PendingEvent) /\ Len(new) = Len(kept) + 1 /\ new[Len(kept) + 1] = p
        /\ DOMAIN new = DOMAIN kept \cup {Len(kept) + 1} /\ Len(kept) + 1 \notin DOMAIN kept
        /\ \A i \in DOMAIN kept : new[i] = kept[i]
    BY <1>2, <1>3
  <1> HIDE DEF new
  <1>8. t \in Sessions
    BY <1>1, <1>5, <1>7 DEF Sessions
  <1>9. /\ u \in Wires /\ u.reqs = w.reqs /\ u.auths = w.auths /\ u.accepted = w.accepted
        /\ u.sends[e] = w.sends[e] + 1 /\ u.published[e] = w.published[e] + 1
        /\ \A x \in Events \ {e} : u.sends[x] = w.sends[x] /\ u.published[x] = w.published[x]
    <2> DEFINE P2 == [w.published EXCEPT ![e] = w.published[e] + 1]
               S2 == [x \in Events |-> w.sends[x] + out.events[x]]
    <2>1. /\ w.published \in [Events -> Nat] /\ w.sends \in [Events -> Nat]
          /\ w.auths \in Seq(Challenges) /\ w.reqs \in Nat
      BY <1>1 DEF Wires
    <2>2. /\ out.reqs = 0 /\ out.auths = <<>> /\ out.events[e] = 1
          /\ \A x \in Events \ {e} : out.events[x] = 0
      BY <1>5 DEF Nothing
    <2>3. /\ P2 \in [Events -> Nat] /\ P2[e] = w.published[e] + 1
          /\ \A x \in Events \ {e} : P2[x] = w.published[x]
      BY <2>1
    <2>4. /\ S2 \in [Events -> Nat] /\ S2[e] = w.sends[e] + 1
          /\ \A x \in Events \ {e} : S2[x] = w.sends[x]
      BY <2>1, <2>2
    <2>5. v = [w EXCEPT !.published = P2]
      BY <1>1 DEF Wires
    <2> HIDE DEF P2
    <2>6. /\ v \in Wires /\ v.published = P2 /\ v.sends = w.sends /\ v.reqs = w.reqs
          /\ v.auths = w.auths /\ v.accepted = w.accepted
      BY <1>1, <2>3, <2>5 DEF Wires
    <2>7. w.auths \o <<>> = w.auths /\ w.reqs + 0 = w.reqs
      BY <2>1, ConcatEmptySeq
    <2>8. u = [v EXCEPT !.sends = S2, !.reqs = w.reqs, !.auths = w.auths]
      BY <2>2, <2>6, <2>7 DEF Carried
    <2> HIDE DEF S2, u
    <2>9. /\ u \in Wires /\ u.published = P2 /\ u.sends = S2 /\ u.reqs = w.reqs
          /\ u.auths = w.auths /\ u.accepted = w.accepted
      BY <2>1, <2>4, <2>6, <2>8 DEF Wires
    <2> QED
      BY <2>3, <2>4, <2>9
  <1> HIDE DEF u
  <1>10. ASSUME NEW x \in Events
         PROVE  u.sends[x] + Cardinality(Open(t.events, x)) <= 2 * u.published[x]
    <2>1. /\ Cardinality(Open(kept, x)) \in Nat /\ Cardinality(Open(s.events, x)) \in Nat
          /\ IsFiniteSet(Open(kept, x))
      BY <1>1, <1>2, OpenIsFinite
    <2>2. w.sends[x] \in Nat /\ w.published[x] \in Nat
      BY <1>1 DEF Wires
    <2>3. w.sends[x] + Cardinality(Open(s.events, x)) <= 2 * w.published[x]
      BY <1>1 DEF Fits, Counted
    <2>4. CASE x = e
      <3>1. Open(new, x) = Open(kept, x) \cup {Len(kept) + 1}
        BY <1>6, <1>7, <2>4 DEF Open
      <3>2. Len(kept) + 1 \notin Open(kept, x)
        BY <1>7 DEF Open
      <3>3. Cardinality(Open(new, x)) = Cardinality(Open(kept, x)) + 1
        BY <2>1, <3>1, <3>2, FS_AddElement
      <3>4. u.sends[x] = w.sends[x] + 1 /\ u.published[x] = w.published[x] + 1
        BY <1>9, <2>4
      <3>5. Cardinality(Open(kept, x)) <= Cardinality(Open(s.events, x))
        BY <1>2
      <3> QED
        BY <1>4, <2>1, <2>2, <2>3, <3>3, <3>4, <3>5
    <2>5. CASE x # e
      <3>1. Open(new, x) = Open(kept, x)
        BY <1>6, <1>7, <2>5 DEF Open
      <3> QED
        BY <1>2, <1>4, <1>9, <2>1, <2>2, <2>3, <2>5, <3>1
    <2> QED
      BY <2>4, <2>5
  <1>11. Counted(t, u) /\ Answering(t, u)
    BY <1>1, <1>4, <1>9, <1>10 DEF Fits, Counted, Answering
  <1>12. Settled(t)
    BY <1>2, <1>4, <1>6, <1>7 DEF Sound, Settled
  <1>13. Len(t.events) <= MaxPending
    BY <1>2, <1>4, <1>7, Limits
  <1> QED
    BY <1>4, <1>8, <1>9, <1>11, <1>12, <1>13 DEF Sound, Fits, t, u, out

LEMMA EventOkSound ==
    ASSUME NEW s, NEW w, Sound(s, w), NEW e, NEW verdict
    PROVE  LET got == EventOk(s, e, verdict)
           IN /\ Sound(got.session, Carried(w, got.out))
              /\ s.accessError => got.session.accessError
  <1> DEFINE i == SelectInSeq(s.events, LAMBDA p : p.event = e)
  <1>1. /\ s \in Sessions /\ w \in Wires /\ Fits(s, w) /\ s.events \in Seq(PendingEvent)
        /\ Len(s.events) \in Nat /\ Len(s.events) <= MaxPending /\ s.accessError \in BOOLEAN
    BY DEF Sound, Fits, Sessions
  <1>2. CASE i \notin DOMAIN s.events
    <2>1. EventOk(s, e, verdict) = Quiet(s)
      BY <1>2 DEF EventOk
    <2> QED
      BY <1>1, <2>1, NothingCarried DEF Quiet
  <1>3. CASE i \in DOMAIN s.events /\ verdict = "auth" /\ ~s.events[i].retried
    <2> DEFINE t == [s EXCEPT !.events[i].waiting = TRUE]
               p == [s.events[i] EXCEPT !.waiting = TRUE]
               new == [s.events EXCEPT ![i] = p]
    <2>1. EventOk(s, e, verdict) = RetryOrWait(t)
      BY <1>3 DEF EventOk
    <2> HIDE DEF i
    <2>2. s.events[i] \in PendingEvent
      BY <1>1, <1>3
    <2>3. p \in PendingEvent /\ p.event = s.events[i].event /\ p.retried = s.events[i].retried
      BY <2>2 DEF PendingEvent
    <2>4. t = [s EXCEPT !.events = new]
      BY <1>1 DEF Sessions
    <2> HIDE DEF p, t
    <2>5. /\ new \in Seq(PendingEvent) /\ Len(new) = Len(s.events) /\ DOMAIN new = DOMAIN s.events
          /\ new[i] = p /\ \A j \in DOMAIN s.events \ {i} : new[j] = s.events[j]
      BY <1>1, <1>3, <2>3
    <2> HIDE DEF new
    <2>6. \A x : Open(new, x) = Open(s.events, x)
      BY <2>3, <2>5 DEF Open
    <2>7. /\ t \in Sessions /\ t.events = new /\ t.challenge = s.challenge
          /\ t.attempts = s.attempts /\ t.pendingAuth = s.pendingAuth
          /\ t.authenticated = s.authenticated /\ t.retrySub = s.retrySub
          /\ t.subRetried = s.subRetried /\ t.accessError = s.accessError
      BY <1>1, <2>4, <2>5 DEF Sessions
    <2>8. Fits(t, w)
      BY <1>1, <2>5, <2>6, <2>7 DEF Fits, Counted, Answering
    <2> QED
      BY <2>1, <2>7, <2>8, RetryOrWaitSound
  <1>4. CASE i \in DOMAIN s.events /\ ~(verdict = "auth" /\ ~s.events[i].retried)
    <2> DEFINE new == RemoveAt(s.events, i)
               t == [s EXCEPT !.events = new, !.accessError = @ \/ verdict # "accepted"]
    <2>1. EventOk(s, e, verdict) = Quiet(t)
      BY <1>4 DEF EventOk
    <2> HIDE DEF i
    <2>2. /\ new \in Seq(PendingEvent) /\ Len(new) = Len(s.events) - 1
          /\ \A k \in DOMAIN new : \E j \in DOMAIN s.events : new[k] = s.events[j]
      BY <1>1, <1>4, DropOne
    <2>3. \A x : Cardinality(Open(new, x)) <= Cardinality(Open(s.events, x))
      BY <1>1, <1>4, DropOne
    <2> HIDE DEF new
    <2>4. /\ t \in Sessions /\ t.events = new /\ t.challenge = s.challenge
          /\ t.attempts = s.attempts /\ t.pendingAuth = s.pendingAuth
          /\ t.authenticated = s.authenticated /\ t.retrySub = s.retrySub
          /\ t.subRetried = s.subRetried /\ (s.accessError => t.accessError)
      BY <1>1, <2>2 DEF Sessions
    <2> HIDE DEF t
    <2>5. ASSUME NEW x \in Events
          PROVE  w.sends[x] + Cardinality(Open(t.events, x)) <= 2 * w.published[x]
      <3>1. Cardinality(Open(new, x)) \in Nat /\ Cardinality(Open(s.events, x)) \in Nat
        BY <1>1, <2>2, OpenIsFinite
      <3>2. w.sends[x] \in Nat /\ w.published[x] \in Nat
        BY <1>1 DEF Wires
      <3>3. w.sends[x] + Cardinality(Open(s.events, x)) <= 2 * w.published[x]
        BY <1>1 DEF Fits, Counted
      <3>4. Cardinality(Open(new, x)) <= Cardinality(Open(s.events, x))
        BY <2>3
      <3> QED
        BY <2>4, <3>1, <3>2, <3>3, <3>4
    <2>6. Counted(t, w) /\ Answering(t, w)
      BY <1>1, <2>4, <2>5 DEF Fits, Counted, Answering
    <2>7. Settled(t)
      BY <2>2, <2>4 DEF Sound, Settled
    <2>8. Len(t.events) <= MaxPending
      BY <1>1, <2>2, <2>4, Limits
    <2>9. Sound(t, w)
      BY <1>1, <2>4, <2>6, <2>7, <2>8 DEF Sound, Fits
    <2> QED
      BY <1>1, <2>1, <2>4, <2>9, NothingCarried DEF Quiet
  <1> QED
    BY <1>2, <1>3, <1>4

\* An AUTH is for the challenge that stands, and is the last one written.
LEMMA TickedSound ==
    ASSUME NEW s, NEW w, Sound(s, w), NEW timedOut \in BOOLEAN, NEW signed \in {"ok", "locked", "error"}
    PROVE  LET got == Ticked(s, timedOut, signed)
           IN /\ Sound(got.session, Carried(w, got.out))
              /\ s.accessError => got.session.accessError
  <1> DEFINE t == IF timedOut /\ s.pendingAuth # 0
                  THEN [s EXCEPT !.pendingAuth = 0, !.authError = TRUE] ELSE s
             got == Ticked(s, timedOut, signed)
  <1>1. s \in Sessions /\ w \in Wires
    BY DEF Sound, Fits
  <1>2. /\ t \in Sessions /\ t.events = s.events /\ t.challenge = s.challenge
        /\ t.attempts = s.attempts /\ t.pendingAuth \in {0, s.pendingAuth}
        /\ t.authenticated = s.authenticated /\ t.retrySub = s.retrySub
        /\ t.subRetried = s.subRetried /\ t.accessError = s.accessError
    BY <1>1, Limits DEF Sessions
  <1>3. \/ got = Quiet(t)
        \/ \E x, y \in BOOLEAN : got = Quiet([t EXCEPT !.attempted = x, !.authError = TRUE, !.fault = y])
        \/ /\ ~t.authenticated /\ t.challenge # NoChallenge /\ t.attempts < MaxAuthAttempts
           /\ got = [session |-> [t EXCEPT !.attempts = @ + 1, !.attempted = TRUE,
                                    !.pendingAuth = t.attempts + 1, !.authError = TRUE],
                     out |-> [Nothing EXCEPT !.auths = <<t.challenge>>]]
    <2>1. CASE t.attempted \/ t.authenticated \/ t.challenge = NoChallenge
      BY <2>1 DEF Ticked
    <2>2. CASE ~(t.attempted \/ t.authenticated \/ t.challenge = NoChallenge)
      <3> HIDE DEF t
      <3>1. t.attempts \in Nat /\ MaxAuthAttempts \in Nat
        BY <1>2, Limits DEF Sessions
      <3>2. t.attempted = FALSE /\ t.attempted \in BOOLEAN /\ t.fault \in BOOLEAN
        BY <1>2, <2>2 DEF Sessions
      <3>3. /\ [t EXCEPT !.authError = TRUE, !.attempted = TRUE]
                  = [t EXCEPT !.attempted = TRUE, !.authError = TRUE, !.fault = t.fault]
            /\ [t EXCEPT !.authError = TRUE]
                  = [t EXCEPT !.attempted = FALSE, !.authError = TRUE, !.fault = t.fault]
        BY <1>2, <3>2 DEF Sessions
      <3>4. got = IF t.attempts >= MaxAuthAttempts
              THEN Quiet([t EXCEPT !.authError = TRUE, !.attempted = TRUE])
              ELSE CASE signed = "ok" ->
                          [session |-> [t EXCEPT !.attempts = @ + 1, !.attempted = TRUE,
                                           !.pendingAuth = t.attempts + 1, !.authError = TRUE],
                           out |-> [Nothing EXCEPT !.auths = <<t.challenge>>]]
                     [] signed = "locked" -> Quiet([t EXCEPT !.authError = TRUE])
                     [] signed = "error" ->
                          Quiet([t EXCEPT !.attempted = TRUE, !.authError = TRUE, !.fault = TRUE])
        BY <2>2 DEF Ticked, t
      <3> HIDE DEF got
      <3>5. CASE t.attempts >= MaxAuthAttempts
        BY <3>2, <3>3, <3>4, <3>5
      <3>6. CASE ~(t.attempts >= MaxAuthAttempts) /\ signed = "ok"
        <4>1. got = [session |-> [t EXCEPT !.attempts = @ + 1, !.attempted = TRUE,
                                    !.pendingAuth = t.attempts + 1, !.authError = TRUE],
                     out |-> [Nothing EXCEPT !.auths = <<t.challenge>>]]
          BY <3>4, <3>6
        <4>2. t.attempts < MaxAuthAttempts
          BY <3>1, <3>6
        <4> QED
          BY <2>2, <4>1, <4>2
      <3>7. CASE ~(t.attempts >= MaxAuthAttempts) /\ signed = "locked"
        BY <3>2, <3>3, <3>4, <3>7
      <3>8. CASE ~(t.attempts >= MaxAuthAttempts) /\ signed = "error"
        BY <3>4, <3>8
      <3> QED
        BY <3>5, <3>6, <3>7, <3>8
    <2> QED
      BY <2>1, <2>2
  <1> HIDE DEF t, got
  <1>4. Sound(t, w)
    BY <1>2, Relabelled
  <1>5. CASE got = Quiet(t)
    BY <1>1, <1>2, <1>4, <1>5, NothingCarried DEF Quiet, got
  <1>6. ASSUME NEW x \in BOOLEAN, NEW y \in BOOLEAN,
               got = Quiet([t EXCEPT !.attempted = x, !.authError = TRUE, !.fault = y])
        PROVE  Sound(got.session, Carried(w, got.out)) /\ (s.accessError => got.session.accessError)
    <2> DEFINE u == [t EXCEPT !.attempted = x, !.authError = TRUE, !.fault = y]
    <2>1. /\ u \in Sessions /\ u.events = t.events /\ u.challenge = t.challenge
          /\ u.attempts = t.attempts /\ u.pendingAuth = t.pendingAuth
          /\ u.authenticated = t.authenticated /\ u.retrySub = t.retrySub
          /\ u.subRetried = t.subRetried /\ u.accessError = t.accessError
      BY <1>2 DEF Sessions
    <2>2. got.session = u /\ Carried(w, got.out) = w
      BY <1>1, <1>6, NothingCarried DEF Quiet
    <2> HIDE DEF u
    <2>3. Sound(u, w)
      BY <1>4, <2>1, Relabelled
    <2> QED
      BY <1>2, <2>1, <2>2, <2>3
  <1>7. ASSUME ~t.authenticated, t.challenge # NoChallenge, t.attempts < MaxAuthAttempts,
               got = [session |-> [t EXCEPT !.attempts = @ + 1, !.attempted = TRUE,
                                    !.pendingAuth = t.attempts + 1, !.authError = TRUE],
                     out |-> [Nothing EXCEPT !.auths = <<t.challenge>>]]
        PROVE  Sound(got.session, Carried(w, got.out)) /\ (s.accessError => got.session.accessError)
    <2> DEFINE u == [t EXCEPT !.attempts = @ + 1, !.attempted = TRUE,
                        !.pendingAuth = t.attempts + 1, !.authError = TRUE]
               v == Carried(w, got.out)
    <2>1. t.attempts \in Nat /\ t.attempts + 1 \in 0 .. MaxAuthAttempts /\ t.challenge \in Challenges
      BY <1>2, <1>7, Limits DEF Sessions
    <2>2. /\ u \in Sessions /\ u.events = t.events /\ u.challenge = t.challenge
          /\ u.attempts = t.attempts + 1 /\ u.pendingAuth = t.attempts + 1
          /\ u.authenticated = t.authenticated /\ u.retrySub = t.retrySub
          /\ u.subRetried = t.subRetried /\ u.accessError = t.accessError
      BY <1>2, <2>1 DEF Sessions
    <2>3. got.session = u /\ got.out = [Nothing EXCEPT !.auths = <<t.challenge>>]
      BY <1>7
    <2>4. /\ got.out.reqs = 0 /\ got.out.auths = <<t.challenge>>
          /\ got.out.events = [e \in Events |-> 0]
      BY <2>3 DEF Nothing
    <2>5. /\ w.auths \in Seq(Challenges) /\ w.sends \in [Events -> Nat] /\ w.reqs \in Nat
          /\ Len(w.auths) = t.attempts
      BY <1>1, <1>4 DEF Wires, Sound, Fits, Answering
    <2>6. [e \in Events |-> w.sends[e] + got.out.events[e]] = w.sends
      BY <2>4, <2>5
    <2> DEFINE A2 == w.auths \o <<t.challenge>>
    <2>7. A2 \in Seq(Challenges) /\ Len(A2) = t.attempts + 1 /\ A2[t.attempts + 1] = t.challenge
      BY <2>1, <2>5
    <2>8. v = [w EXCEPT !.sends = w.sends, !.reqs = w.reqs, !.auths = A2]
      <3>1. w.reqs + got.out.reqs = w.reqs
        BY <2>4, <2>5
      <3>2. w.auths \o got.out.auths = A2
        BY <2>4
      <3> QED
        BY <2>6, <3>1, <3>2 DEF Carried
    <2> HIDE DEF A2, u, v
    <2>9. /\ v \in Wires /\ v.sends = w.sends /\ v.reqs = w.reqs /\ v.auths = A2
          /\ v.published = w.published /\ v.accepted = w.accepted
      BY <1>1, <2>5, <2>7, <2>8 DEF Wires
    <2>10. Counted(u, v)
      BY <1>4, <2>2, <2>9 DEF Sound, Fits, Counted
    <2>11. Answering(u, v)
      BY <1>7, <2>1, <2>2, <2>7, <2>9 DEF Answering
    <2>12. Sound(u, v)
      BY <1>4, <1>7, <2>2, <2>9, <2>10, <2>11 DEF Sound, Fits, Settled
    <2> QED
      BY <1>2, <2>2, <2>3, <2>12 DEF v
  <1> QED
    BY <1>3, <1>5, <1>6, <1>7 DEF got

-----------------------------------------------------------------------------
(* The connection task *)

\* A step of one relay's task on an open socket.
Moved(r) ==
    /\ session' \in [Relays -> Sessions] /\ wire' \in [Relays -> Wires]
    /\ health' \in [Relays -> [connected : BOOLEAN, error : BOOLEAN]]
    /\ Sound(session'[r], wire'[r])
    /\ health'[r].connected = ~Trouble(session'[r])
    /\ session[r].accessError => session'[r].accessError
    /\ \A q \in Relays \ {r} : session'[q] = session[q] /\ wire'[q] = wire[q] /\ health'[q] = health[q]

LEMMA IterateMoves ==
    ASSUME SocketInv, NEW r \in Relays, NEW got, NEW w, Iterate(r, got, w),
           Sound(got.session, Carried(w, got.out)),
           session[r].accessError => got.session.accessError
    PROVE  Moved(r)
  <1> DEFINE v == Carried(w, got.out)
  <1>1. PICK t \in Ticks(got.session) :
          /\ session' = [session EXCEPT ![r] = t.session]
          /\ health' = [health EXCEPT ![r] =
                [connected |-> ~Trouble(t.session), error |-> Trouble(t.session)]]
          /\ wire' = [wire EXCEPT ![r] = Carried(v, t.out)]
    BY DEF Iterate
  <1>2. PICK n \in 0 .. Len(got.session.events), timedOut \in BOOLEAN,
             signed \in {"ok", "locked", "error"} :
          t = Ticked(Expired(got.session, n), timedOut, signed)
    BY DEF Ticks
  <1>3. /\ Sound(t.session, Carried(v, t.out))
        /\ got.session.accessError => t.session.accessError
    <2>1. /\ Sound(Expired(got.session, n), v)
          /\ Expired(got.session, n).accessError = got.session.accessError
      BY ExpiredSound
    <2>2. /\ Sound(t.session, Carried(v, t.out))
          /\ Expired(got.session, n).accessError => t.session.accessError
      BY <1>2, <2>1, TickedSound
    <2> QED
      BY <2>1, <2>2
  <1>4. /\ session' = [session EXCEPT ![r] = t.session] /\ wire' = [wire EXCEPT ![r] = Carried(v, t.out)]
        /\ health' = [health EXCEPT ![r] =
              [connected |-> ~Trouble(t.session), error |-> Trouble(t.session)]]
    BY <1>1
  <1> HIDE DEF v
  <1>5. /\ session \in [Relays -> Sessions] /\ wire \in [Relays -> Wires]
        /\ health \in [Relays -> [connected : BOOLEAN, error : BOOLEAN]]
    BY DEF SocketInv, RelayTypeOK
  <1>6. t.session \in Sessions /\ Carried(v, t.out) \in Wires /\ Trouble(t.session) \in BOOLEAN
    BY <1>3 DEF Sound, Fits, Trouble, Sessions
  <1>7. /\ session'[r] = t.session /\ wire'[r] = Carried(v, t.out)
        /\ health'[r].connected = ~Trouble(t.session)
    BY <1>4, <1>5
  <1>8. /\ session' \in [Relays -> Sessions] /\ wire' \in [Relays -> Wires]
        /\ health' \in [Relays -> [connected : BOOLEAN, error : BOOLEAN]]
    BY <1>4, <1>5, <1>6
  <1>9. \A q \in Relays \ {r} : session'[q] = session[q] /\ wire'[q] = wire[q] /\ health'[q] = health[q]
    BY <1>4, <1>5
  <1> QED
    BY <1>3, <1>7, <1>8, <1>9 DEF Moved

\* What a socket's move leaves, whatever else the step does.
LEMMA MovedKeeps ==
    ASSUME SocketInv, NEW r \in Relays, Moved(r), UNCHANGED <<listening, unlocked, reach, link, left>>,
           probed' \in [Relays -> BOOLEAN],
           queue' \in [Relays -> Seq(Events)], \A q \in Relays : Len(queue'[q]) <= RelayQueue,
           inbox' \in 0 .. AccountQueue
    PROVE  SocketInv'
  <1>1. \A q \in Relays : Sound(session'[q], wire'[q])
    BY DEF SocketInv, Moved
  <1>2. \A q \in Relays : link'[q] = "up" => health'[q].connected = ~Trouble(session'[q])
    BY DEF SocketInv, Moved
  <1>3. \A q \in Relays : Len(session'[q].events) <= MaxPending
    BY <1>1 DEF Sound, Fits
  <1>4. RelayTypeOK'
    BY <1>3 DEF SocketInv, RelayTypeOK, Moved
  <1>5. \A q \in Relays : Sound(session[q], wire[q])'
    BY <1>1 DEF Sound, Fits, Settled, Counted, Answering
  <1>6. \A q \in Relays : (link[q] = "up" => health[q].connected = ~Trouble(session[q]))'
    BY <1>2 DEF Trouble
  <1> QED
    BY <1>4, <1>5, <1>6 DEF SocketInv

\* What receive makes of a message, on a session it has first let age.
LEMMA ReceivedMoves ==
    ASSUME SocketInv, NEW r \in Relays, NEW results, NEW w, Received(r, results, w),
           \A got \in results :
               /\ Sound(got.session, Carried(w, got.out))
               /\ session[r].accessError => got.session.accessError
    PROVE  SocketInv' /\ Moved(r)
  <1>1. PICK got \in results : Iterate(r, got, w)
    BY DEF Received
  <1>2. Moved(r)
    BY <1>1, IterateMoves
  <1>3. /\ UNCHANGED <<listening, unlocked, reach, link, left>> /\ probed' \in [Relays -> BOOLEAN]
        /\ queue' \in [Relays -> Seq(Events)] /\ \A q \in Relays : Len(queue'[q]) <= RelayQueue
        /\ inbox' \in 0 .. AccountQueue
    BY DEF Received, SocketInv, RelayTypeOK
  <1> QED
    BY <1>2, <1>3, MovedKeeps

LEMMA AgedSound ==
    ASSUME SocketInv, NEW r \in Relays, NEW s \in Aged(r)
    PROVE  Sound(s, wire[r]) /\ s.accessError = session[r].accessError
  BY ExpiredSound DEF Aged, SocketInv

LEMMA QuietMoves ==
    ASSUME SocketInv, NEW r \in Relays, Iterate(r, Quiet(session[r]), wire[r])
    PROVE  Moved(r)
  <1>1. Sound(session[r], wire[r]) /\ Carried(wire[r], Nothing) = wire[r]
    BY NothingCarried DEF SocketInv, RelayTypeOK
  <1>2. /\ Sound(Quiet(session[r]).session, Carried(wire[r], Quiet(session[r]).out))
        /\ session[r].accessError => Quiet(session[r]).session.accessError
    BY <1>1 DEF Quiet
  <1> QED
    BY <1>2, IterateMoves

-----------------------------------------------------------------------------
(* The invariant *)

\* A socket that is closed, or a pool that is replaced, starts afresh; what is shown of a closed
\* socket is for the next connection to say.
LEMMA EndsKeeps ==
    ASSUME SocketInv, NEW r \in Relays, NEW error \in BOOLEAN, Ends(r, error),
           UNCHANGED <<listening, unlocked, reach, inbox, left>>,
           queue' \in [Relays -> Seq(Events)], \A q \in Relays : Len(queue'[q]) <= RelayQueue
    PROVE  SocketInv' /\ link'[r] = "down"
  <1> USE DEF Ends
  <1>0. SocketInv /\ RelayTypeOK
    BY DEF SocketInv
  <1>1. Sound(NewSession, NewWire)
    BY NewIsSound
  <1>2. NewSession \in Sessions /\ NewWire \in Wires
    BY <1>1 DEF Sound, Fits
  <1>3. /\ session'[r] = NewSession /\ wire'[r] = NewWire /\ link'[r] = "down"
        /\ \A q \in Relays \ {r} : /\ session'[q] = session[q] /\ wire'[q] = wire[q]
                                  /\ link'[q] = link[q] /\ health'[q] = health[q]
    BY <1>0 DEF RelayTypeOK
  <1>4. \A q \in Relays : Sound(session'[q], wire'[q])
    BY <1>0, <1>1, <1>3 DEF SocketInv
  <1>5. \A q \in Relays : Len(session'[q].events) <= MaxPending
    BY <1>4 DEF Sound, Fits
  <1>6. RelayTypeOK'
    BY <1>0, <1>2, <1>5 DEF RelayTypeOK
  <1>7. \A q \in Relays : link'[q] = "up" => health'[q].connected = ~Trouble(session'[q])
    <2> SUFFICES ASSUME NEW q \in Relays, link'[q] = "up"
                 PROVE  health'[q].connected = ~Trouble(session'[q])
      OBVIOUS
    <2>1. q # r
      BY <1>3
    <2>2. session'[q] = session[q] /\ link[q] = "up" /\ health'[q] = health[q]
      BY <1>3, <2>1
    <2>3. health[q].connected = ~Trouble(session[q])
      BY <1>0, <2>2 DEF SocketInv
    <2> QED
      BY <2>2, <2>3
  <1> QED
    BY <1>3, <1>4, <1>6, <1>7 DEF SocketInv

LEMMA ConnectKeeps ==
    ASSUME SocketInv, NEW r \in Relays, Connect(r)
    PROVE  SocketInv'
  <1> USE DEF Connect
  <1> DEFINE w == [NewWire EXCEPT !.reqs = 1]
  <1>0. SocketInv /\ RelayTypeOK
    BY DEF SocketInv
  <1>1. Sound(NewSession, w) /\ ~Trouble(NewSession)
    BY SubscribedIsSound DEF Trouble, NewSession
  <1> HIDE DEF w
  <1>2. NewSession \in Sessions /\ w \in Wires
    BY <1>1 DEF Sound, Fits
  <1>3. /\ session'[r] = NewSession /\ wire'[r] = w /\ health'[r].connected
        /\ \A q \in Relays \ {r} : /\ session'[q] = session[q] /\ wire'[q] = wire[q]
                                  /\ link'[q] = link[q] /\ health'[q] = health[q]
    BY <1>0 DEF RelayTypeOK, w
  <1>4. \A q \in Relays : Sound(session'[q], wire'[q])
    BY <1>0, <1>1, <1>3 DEF SocketInv
  <1>5. \A q \in Relays : Len(session'[q].events) <= MaxPending
    BY <1>4 DEF Sound, Fits
  <1>6. RelayTypeOK'
    BY <1>0, <1>2, <1>5 DEF RelayTypeOK, w
  <1>7. \A q \in Relays : link'[q] = "up" => health'[q].connected = ~Trouble(session'[q])
    <2> SUFFICES ASSUME NEW q \in Relays, link'[q] = "up"
                 PROVE  health'[q].connected = ~Trouble(session'[q])
      OBVIOUS
    <2>1. CASE q = r
      <3>1. health'[r].connected = TRUE
        BY <1>0 DEF RelayTypeOK
      <3> QED
        BY <1>1, <1>3, <2>1, <3>1
    <2>2. CASE q # r
      <3>1. link[q] = "up" /\ health'[q] = health[q] /\ session'[q] = session[q]
        BY <1>3, <2>2
      <3>2. health[q].connected = ~Trouble(session[q])
        BY <1>0, <3>1 DEF SocketInv
      <3> QED
        BY <3>1, <3>2
    <2> QED
      BY <2>1, <2>2
  <1> QED
    BY <1>4, <1>6, <1>7 DEF SocketInv

LEMMA FreshKeeps ==
    ASSUME SocketInv, Fresh, listening' \in BOOLEAN, UNCHANGED <<unlocked, reach, left>>
    PROVE  SocketInv'
  <1> USE DEF Fresh
  <1>1. NewSession \in Sessions /\ NewWire \in Wires /\ Len(NewSession.events) <= MaxPending
    BY NewIsSound DEF Sound, Fits
  <1>2. RelayTypeOK'
    BY <1>1, Limits DEF SocketInv, RelayTypeOK, Down
  <1> QED
    BY <1>2, NewIsSound DEF SocketInv

\* A message of the relay's, of any kind.
LEMMA FromRelayKeeps ==
    ASSUME SocketInv, NEW r \in Relays, FromRelay(r)
    PROVE  SocketInv' /\ Moved(r)
  <1>0. /\ RelayTypeOK /\ wire[r] \in Wires
        /\ \A s \in Aged(r) : Sound(s, wire[r]) /\ s.accessError = session[r].accessError
    BY AgedSound DEF SocketInv, RelayTypeOK
  <1>1. ASSUME NEW c \in Challenges, ReceiveChallenge(r, c)
        PROVE  SocketInv' /\ Moved(r)
    <2> DEFINE results == {Quiet(Challenged(s, c)) : s \in Aged(r)}
    <2>1. ASSUME NEW s \in Aged(r)
          PROVE  /\ Sound(Quiet(Challenged(s, c)).session, Carried(wire[r], Quiet(Challenged(s, c)).out))
                 /\ session[r].accessError => Quiet(Challenged(s, c)).session.accessError
      BY <1>0, ChallengedSound, NothingCarried DEF Quiet
    <2>2. Received(r, results, wire[r])
      BY <1>1 DEF ReceiveChallenge
    <2> QED
      BY <2>1, <2>2, ReceivedMoves
  <1>2. CASE ReceiveOversized(r)
    <2> DEFINE t(s) == [s EXCEPT !.authError = TRUE]
               results == {Quiet(t(s)) : s \in Aged(r)}
    <2>1. ASSUME NEW s \in Aged(r)
          PROVE  /\ Sound(Quiet(t(s)).session, Carried(wire[r], Quiet(t(s)).out))
                 /\ session[r].accessError => Quiet(t(s)).session.accessError
      <3>1. s \in Sessions /\ Sound(s, wire[r])
        BY <1>0 DEF Sound, Fits
      <3>2. /\ t(s) \in Sessions /\ t(s).events = s.events /\ t(s).challenge = s.challenge
            /\ t(s).attempts = s.attempts /\ t(s).pendingAuth = s.pendingAuth
            /\ t(s).authenticated = s.authenticated /\ t(s).retrySub = s.retrySub
            /\ t(s).subRetried = s.subRetried /\ t(s).accessError = s.accessError
        BY <3>1 DEF Sessions
      <3> HIDE DEF t
      <3>3. Sound(t(s), wire[r])
        BY <3>1, <3>2, Relabelled
      <3> QED
        BY <1>0, <3>2, <3>3, NothingCarried DEF Quiet
    <2>2. Received(r, results, wire[r])
      BY <1>2 DEF ReceiveOversized
    <2> HIDE DEF t
    <2> QED
      BY <2>1, <2>2, ReceivedMoves
  <1>3. ASSUME NEW n \in 1 .. MaxAuthAttempts, NEW status \in BOOLEAN, ReceiveAuthOk(r, n, status)
        PROVE  SocketInv' /\ Moved(r)
    <2> DEFINE w == IF status THEN [wire[r] EXCEPT !.accepted = @ \cup {wire[r].auths[n]}] ELSE wire[r]
               got(s) == IF s.pendingAuth = n THEN AuthOk(s, status) ELSE Quiet(s)
               results == {got(s) : s \in Aged(r)}
    <2>0. n \in 1 .. Len(wire[r].auths)
      BY <1>0, <1>3 DEF ReceiveAuthOk, Wires
    <2>1. ASSUME NEW s \in Aged(r)
          PROVE  Sound(got(s).session, Carried(w, got(s).out))
                 /\ (session[r].accessError => got(s).session.accessError)
      <3>1. CASE s.pendingAuth = n
        BY <1>0, <2>0, <3>1, AuthOkSound
      <3>2. CASE s.pendingAuth # n
        <4>1. got(s).session = s /\ got(s).out = Nothing
          BY <3>2 DEF Quiet
        <4> HIDE DEF got
        <4>2. Sound(s, w) /\ w \in Wires
          <5>1. CASE status
            <6>1. /\ w \in Wires /\ w.accepted = wire[r].accepted \cup {wire[r].auths[n]}
                  /\ w.reqs = wire[r].reqs /\ w.sends = wire[r].sends /\ w.auths = wire[r].auths
                  /\ w.published = wire[r].published
              <7>1. wire[r].auths[n] \in Challenges
                BY <1>0, <2>0 DEF Wires
              <7>2. w = [wire[r] EXCEPT !.accepted = @ \cup {wire[r].auths[n]}]
                BY <5>1
              <7> HIDE DEF w
              <7> QED
                BY <1>0, <7>1, <7>2 DEF Wires
            <6> HIDE DEF w
            <6> QED
              BY <1>0, <6>1 DEF Sound, Fits, Counted, Answering
          <5>2. CASE ~status
            BY <1>0, <5>2
          <5> QED
            BY <5>1, <5>2
        <4> HIDE DEF w
        <4> QED
          BY <1>0, <4>1, <4>2, NothingCarried
      <3> QED
        BY <3>1, <3>2
    <2>2. Received(r, results, w)
      BY <1>3 DEF ReceiveAuthOk
    <2> HIDE DEF w, got
    <2> QED
      BY <2>1, <2>2, ReceivedMoves
  <1>4. ASSUME NEW e \in Events, NEW verdict \in {"accepted", "auth", "other"},
               ReceiveEventOk(r, e, verdict)
        PROVE  SocketInv' /\ Moved(r)
    <2> DEFINE results == {EventOk(s, e, verdict) : s \in Aged(r)}
    <2>1. ASSUME NEW s \in Aged(r)
          PROVE  /\ Sound(EventOk(s, e, verdict).session, Carried(wire[r], EventOk(s, e, verdict).out))
                 /\ session[r].accessError => EventOk(s, e, verdict).session.accessError
      BY <1>0, EventOkSound
    <2>2. Received(r, results, wire[r])
      BY <1>4 DEF ReceiveEventOk
    <2> QED
      BY <2>1, <2>2, ReceivedMoves
  <1>5. ASSUME NEW verdict \in {"auth", "other"}, ReceiveClosed(r, verdict)
        PROVE  SocketInv' /\ Moved(r)
    <2> DEFINE results == {SubscriptionClosed(s, verdict) : s \in Aged(r)}
    <2>1. ASSUME NEW s \in Aged(r)
          PROVE  /\ Sound(SubscriptionClosed(s, verdict).session,
                          Carried(wire[r], SubscriptionClosed(s, verdict).out))
                 /\ session[r].accessError => SubscriptionClosed(s, verdict).session.accessError
      BY <1>0, ClosedSound
    <2>2. Received(r, results, wire[r])
      BY <1>5 DEF ReceiveClosed
    <2> QED
      BY <2>1, <2>2, ReceivedMoves
  <1>6. CASE ReceiveEvent(r)
    <2>1. Moved(r)
      BY <1>6, QuietMoves DEF ReceiveEvent
    <2>2. inbox' \in 0 .. AccountQueue
      BY <1>0, <1>6, Limits DEF ReceiveEvent, RelayTypeOK
    <2> QED
      BY <1>0, <1>6, <2>1, <2>2, MovedKeeps DEF ReceiveEvent, RelayTypeOK
  <1>7. CASE Pong(r)
    <2>1. Moved(r)
      BY <1>7, QuietMoves DEF Pong
    <2> QED
      BY <1>0, <1>7, <2>1, MovedKeeps DEF Pong, RelayTypeOK
  <1> QED
    BY <1>1, <1>2, <1>3, <1>4, <1>5, <1>6, <1>7 DEF FromRelay

LEMMA SendMoves ==
    ASSUME SocketInv, NEW r \in Relays, queue[r] # <<>>,
           Iterate(r, Published(session[r], Head(queue[r])),
                   [wire[r] EXCEPT !.published[Head(queue[r])] = @ + 1])
    PROVE  Moved(r)
  <1> DEFINE e == Head(queue[r])
             got == Published(session[r], e)
             w == [wire[r] EXCEPT !.published[e] = @ + 1]
  <1>1. Sound(session[r], wire[r]) /\ e \in Events
    BY DEF SocketInv, RelayTypeOK
  <1>2. /\ Sound(got.session, Carried(w, got.out))
        /\ got.session.accessError = session[r].accessError
    BY <1>1, PublishedSound
  <1>3. Iterate(r, got, w)
    OBVIOUS
  <1> HIDE DEF got, w
  <1> QED
    BY <1>2, <1>3, IterateMoves

LEMMA NextKeeps == SocketInv /\ [RelayNext]_relayVars => SocketInv'
  <1> SUFFICES ASSUME SocketInv, [RelayNext]_relayVars PROVE SocketInv'
    OBVIOUS
  <1>0. RelayTypeOK
    BY DEF SocketInv
  <1>1. ASSUME NEW r \in Relays, FromRelay(r) PROVE SocketInv'
    BY <1>1, FromRelayKeeps
  <1>2. ASSUME NEW r \in Relays, Connect(r) PROVE SocketInv'
    BY <1>2, ConnectKeeps
  <1>3. ASSUME NEW r \in Relays, ConnectFails(r) PROVE SocketInv'
    <2> USE DEF ConnectFails
    <2>1. /\ health' \in [Relays -> [connected : BOOLEAN, error : BOOLEAN]]
          /\ \A q \in Relays \ {r} : health'[q] = health[q]
          /\ link[r] = "down"
      BY <1>0, <1>3 DEF RelayTypeOK
    <2>2. RelayTypeOK'
      BY <1>0, <1>3, <2>1 DEF RelayTypeOK
    <2>3. UNCHANGED <<session, wire, link>>
      BY <1>3
    <2>4. \A q \in Relays : (link[q] = "up" => health[q].connected = ~Trouble(session[q]))'
      BY <2>1, <2>3 DEF SocketInv, Trouble
    <2>5. \A q \in Relays : Sound(session[q], wire[q])'
      BY <2>3 DEF SocketInv, Sound, Fits, Settled, Counted, Answering
    <2> QED
      BY <2>2, <2>4, <2>5 DEF SocketInv
  <1>4. ASSUME NEW r \in Relays, NEW error \in BOOLEAN, Disconnect(r, error) PROVE SocketInv'
    BY <1>0, <1>4, EndsKeeps DEF Disconnect, RelayTypeOK
  <1>5. ASSUME NEW r \in Relays, Ticker(r) PROVE SocketInv'
    <2>1. Moved(r)
      BY <1>5, QuietMoves DEF Ticker
    <2> QED
      BY <1>0, <1>5, <2>1, MovedKeeps DEF Ticker, RelayTypeOK
  <1>6. ASSUME NEW r \in Relays, PingTimer(r) PROVE SocketInv'
    <2>1. CASE probed[r]
      BY <1>0, <1>6, <2>1, EndsKeeps DEF PingTimer, RelayTypeOK
    <2>2. CASE ~probed[r]
      <3>1. Moved(r)
        BY <1>6, <2>2, QuietMoves DEF PingTimer
      <3> QED
        BY <1>0, <1>6, <2>2, <3>1, MovedKeeps DEF PingTimer, RelayTypeOK
    <2> QED
      BY <2>1, <2>2
  <1>7. ASSUME NEW r \in Relays, SendQueued(r) PROVE SocketInv'
    <2>0. /\ queue[r] \in Seq(Events) /\ queue[r] # <<>> /\ queue' = [queue EXCEPT ![r] = Tail(queue[r])]
          /\ UNCHANGED <<listening, unlocked, reach, inbox, left>>
      BY <1>0, <1>7 DEF SendQueued, RelayTypeOK
    <2>1. /\ Head(queue[r]) \in Events /\ Tail(queue[r]) \in Seq(Events)
          /\ Len(Tail(queue[r])) = Len(queue[r]) - 1
      BY <2>0
    <2>2. /\ queue' \in [Relays -> Seq(Events)] /\ \A q \in Relays : Len(queue'[q]) <= RelayQueue
          /\ inbox' \in 0 .. AccountQueue
      BY <1>0, <2>0, <2>1, Limits DEF RelayTypeOK
    <2>3. CASE Ends(r, TRUE)
      BY <2>0, <2>2, <2>3, EndsKeeps
    <2>4. CASE /\ Iterate(r, Published(session[r], Head(queue[r])),
                          [wire[r] EXCEPT !.published[Head(queue[r])] = @ + 1])
               /\ UNCHANGED <<link, probed>>
      BY <1>0, <1>7, <2>0, <2>2, <2>4, SendMoves, MovedKeeps DEF RelayTypeOK
    <2> QED
      BY <1>7, <2>3, <2>4 DEF SendQueued
  <1>8. CASE Listen \/ Stop
    BY <1>8, FreshKeeps DEF Listen, Stop
  <1>9. CASE TakeRequest \/ World \/ (\E e \in Events, wanted \in SUBSET Relays : Publish(e, wanted))
                \/ UNCHANGED relayVars
    <2>1. UNCHANGED <<session, wire, link, health>>
      BY <1>9 DEF TakeRequest, World, Publish, relayVars
    <2>2. RelayTypeOK'
      <3>1. CASE TakeRequest
        BY <1>0, <3>1, Limits DEF TakeRequest, RelayTypeOK
      <3>2. CASE World
        BY <1>0, <3>2 DEF World, RelayTypeOK
      <3>3. ASSUME NEW e \in Events, NEW wanted \in SUBSET Relays, Publish(e, wanted)
            PROVE  RelayTypeOK'
        <4>1. ASSUME NEW q \in Relays
              PROVE  queue'[q] \in Seq(Events) /\ Len(queue'[q]) <= RelayQueue
          BY <1>0, <3>3, Limits DEF Publish, RelayTypeOK
        <4>2. queue' \in [Relays -> Seq(Events)]
          BY <3>3, <4>1 DEF Publish
        <4>3. left' \in 0 .. MaxPublish
          BY <1>0, <3>3, RelayAssumption DEF Publish, RelayTypeOK
        <4> QED
          BY <1>0, <3>3, <4>1, <4>2, <4>3 DEF Publish, RelayTypeOK
      <3>4. CASE UNCHANGED relayVars
        BY <1>0, <3>4 DEF relayVars, RelayTypeOK
      <3> QED
        BY <1>9, <3>1, <3>2, <3>3, <3>4
    <2>3. \A q \in Relays : Sound(session[q], wire[q])'
      BY <2>1 DEF SocketInv, Sound, Fits, Settled, Counted, Answering
    <2>4. \A q \in Relays : (link[q] = "up" => health[q].connected = ~Trouble(session[q]))'
      BY <2>1 DEF SocketInv, Trouble
    <2> QED
      BY <2>2, <2>3, <2>4 DEF SocketInv
  <1> QED
    BY <1>1, <1>2, <1>3, <1>4, <1>5, <1>6, <1>7, <1>8, <1>9 DEF RelayNext

LEMMA InitHolds == RelayInit => SocketInv
  <1> SUFFICES ASSUME RelayInit PROVE SocketInv
    OBVIOUS
  <1> USE DEF RelayInit
  <1>1. NewSession \in Sessions /\ NewWire \in Wires /\ Len(NewSession.events) <= MaxPending
    BY NewIsSound DEF Sound, Fits
  <1>2. RelayTypeOK
    <2>1. /\ session \in [Relays -> Sessions] /\ \A r \in Relays : Len(session[r].events) <= MaxPending
          /\ wire \in [Relays -> Wires]
      BY <1>1
    <2>2. queue \in [Relays -> Seq(Events)] /\ \A r \in Relays : Len(queue[r]) <= RelayQueue
      BY Limits
    <2>3. inbox \in 0 .. AccountQueue /\ left \in 0 .. MaxPublish
      BY Limits, RelayAssumption
    <2>4. /\ link \in [Relays -> {"down", "up"}] /\ probed \in [Relays -> BOOLEAN]
          /\ health \in [Relays -> [connected : BOOLEAN, error : BOOLEAN]]
      BY DEF Down
    <2> QED
      BY <2>1, <2>2, <2>3, <2>4 DEF RelayTypeOK
  <1> QED
    BY <1>2, NewIsSound DEF SocketInv

LEMMA Inductive == RelaySpec => []SocketInv
  BY InitHolds, NextKeeps, PTL DEF RelaySpec

\* For any limits: the queues and the window of pending events stay within them, and nothing
\* that a relay refused for want of authentication is left behind on a socket that has it,
\* whatever order its refusals, challenges and acceptances arrive in (receive, retry).
THEOREM NothingIsLeftWaiting == RelaySpec => []RelayInv
  <1>1. SocketInv => RelayInv
    BY DEF SocketInv, Sound, Settled, RelayInv, NothingWaitsAuthenticated
  <1> QED
    BY <1>1, Inductive, PTL

\* However often a relay refuses, challenges and accepts, a socket carries its subscription
\* twice at most and an event twice per publication (retry marks what it sends again).
THEOREM RetriesAreBounded == RelaySpec => []RetriedOnce
  <1>1. ASSUME SocketInv, NEW r \in Relays
        PROVE  wire[r].reqs <= 2 /\ \A e \in Events : wire[r].sends[e] <= 2 * wire[r].published[e]
    <2>1. Counted(session[r], wire[r]) /\ wire[r] \in Wires /\ session[r].events \in Seq(PendingEvent)
      BY <1>1 DEF SocketInv, Sound, Fits, Sessions
    <2>2. wire[r].reqs \in Nat /\ wire[r].reqs <= 2
      BY <2>1 DEF Counted, Wires
    <2>3. ASSUME NEW e \in Events PROVE wire[r].sends[e] <= 2 * wire[r].published[e]
      <3>1. Cardinality(Open(session[r].events, e)) \in Nat
        BY <2>1, OpenIsFinite
      <3>2. wire[r].sends[e] \in Nat /\ wire[r].published[e] \in Nat
        BY <2>1 DEF Wires
      <3>3. wire[r].sends[e] + Cardinality(Open(session[r].events, e)) <= 2 * wire[r].published[e]
        BY <2>1 DEF Counted
      <3> QED
        BY <3>1, <3>2, <3>3
    <2> QED
      BY <2>2, <2>3
  <1>2. SocketInv => RetriedOnce
    BY <1>1 DEF RetriedOnce
  <1> QED
    BY <1>2, Inductive, PTL

\* A late acceptance never authenticates a socket for a newer challenge: the AUTH that is
\* waited for is always one for the challenge that stands (receive forgets it otherwise).
THEOREM AuthenticationFitsChallenge == RelaySpec => []AcceptedForItsChallenge
  <1>1. SocketInv => AcceptedForItsChallenge
    BY DEF SocketInv, Sound, Fits, Answering, AcceptedForItsChallenge
  <1> QED
    BY <1>1, Inductive, PTL

\* A relay that refused us otherwise than for want of authentication is not shown as connected
\* while the socket lasts, whatever it accepts afterwards (error, access_error).
THEOREM RefusalsStayShown == RelaySpec => RefusalStaysShown
  <1> DEFINE A == \A r \in Relays :
                    (link[r] = "up" /\ link'[r] = "up" /\ session[r].accessError)
                       => ~health'[r].connected
  <1>1. ASSUME SocketInv, SocketInv', [RelayNext]_relayVars
        PROVE  A
    <2> SUFFICES ASSUME NEW r \in Relays, link[r] = "up", link'[r] = "up", session[r].accessError
                 PROVE  ~health'[r].connected
      OBVIOUS
    <2>1. health'[r].connected = ~Trouble(session'[r])
      BY <1>1 DEF SocketInv, Trouble
    <2>2. session'[r].accessError
      <3>1. CASE UNCHANGED session
        BY <3>1
      <3>2. ASSUME NEW q \in Relays, Moved(q) PROVE session'[r].accessError
        BY <3>2 DEF Moved
      <3>3. ASSUME NEW q \in Relays, NEW error, Ends(q, error) PROVE session'[r].accessError
        BY <1>1, <3>3 DEF Ends, SocketInv, RelayTypeOK
      <3>4. ASSUME NEW q \in Relays, FromRelay(q) PROVE session'[r].accessError
        BY <1>1, <3>2, <3>4, FromRelayKeeps
      <3>5. ASSUME NEW q \in Relays, Connect(q) PROVE session'[r].accessError
        BY <1>1, <3>5 DEF Connect, SocketInv, RelayTypeOK
      <3>6. ASSUME NEW q \in Relays, Ticker(q) PROVE session'[r].accessError
        BY <1>1, <3>2, <3>6, QuietMoves DEF Ticker
      <3>7. ASSUME NEW q \in Relays, PingTimer(q) PROVE session'[r].accessError
        BY <1>1, <3>2, <3>3, <3>7, QuietMoves DEF PingTimer
      <3>8. ASSUME NEW q \in Relays, SendQueued(q) PROVE session'[r].accessError
        BY <1>1, <3>2, <3>3, <3>8, SendMoves DEF SendQueued
      <3>9. CASE Listen \/ Stop
        BY <3>9 DEF Listen, Stop, Fresh
      <3> QED
        BY <1>1, <3>1, <3>3, <3>4, <3>5, <3>6, <3>7, <3>8, <3>9
           DEF RelayNext, ConnectFails, Disconnect, TakeRequest, World, Publish, relayVars
    <2> QED
      BY <2>1, <2>2 DEF Trouble
  <1>2. RelaySpec => [][A]_relayVars
    BY <1>1, Inductive, PTL DEF RelaySpec
  <1> QED
    BY <1>2 DEF RefusalStaysShown
=============================================================================
