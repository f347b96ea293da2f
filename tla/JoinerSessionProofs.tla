------------------------- MODULE JoinerSessionProofs -------------------------
(***************************************************************************)
(* One joiner session: what it does with a record, and with a datagram of  *)
(* them.  A datagram is a sequence of records, so what it does to a        *)
(* session rests on an induction along it.                                 *)
(***************************************************************************)
EXTENDS JoinerRelay, DtlsClientProofs

-----------------------------------------------------------------------------
(* Sessions and their histories *)

SessionFields ==
    {"run", "secret", "route", "phase", "hello", "cke", "key", "flight", "transcript",
     "finished", "flightRetries", "finishedRetries", "seen", "next0", "next1", "ccs",
     "decision", "expired"}

IsSession(s) == s = [f \in SessionFields |-> s[f]]

\* What both ends of a connection agree on.
Link(s) == [key |-> s.key, transcript |-> s.transcript]

\* The session that a Finished of the server completes is among L.
Opened(m, L) == [key |-> Body(m)[2], transcript |-> Append(Body(m)[3], m)] \in L

\* What the application has heard of a run, and what it was told is decided.
Kinds(pub, run) == {pub[i].kind : i \in {j \in 1..Len(pub) : pub[j].run = run}}
Told(pub, run) ==
    {pub[i].accepted : i \in {j \in 1..Len(pub) : pub[j].run = run /\ pub[j].kind = "Finalized"}}

Before(pub, j) == {pub[i].kind : i \in {k \in 1..(j - 1) : pub[k].run = pub[j].run}}
Expected(kind) == IF kind = "Connected" THEN {} ELSE {"Connected"}
InOrder(pub) == \A j \in 1..Len(pub) : Before(pub, j) = Expected(pub[j].kind)

\* Two sequences, one behind the other.
LEMMA Concatenation ==
    ASSUME NEW p, NEW q, IsSequence(p), IsSequence(q)
    PROVE  /\ IsSequence(p \o q)
           /\ Len(p) \in Nat /\ Len(q) \in Nat /\ Len(p \o q) = Len(p) + Len(q)
           /\ \A i \in 1..Len(p) : (p \o q)[i] = p[i]
           /\ \A i \in 1..Len(q) : (p \o q)[Len(p) + i] = q[i]
           /\ \A e : p \o Append(q, e) = Append(p \o q, e)
           /\ p \o <<>> = p
<1>1. PICK A : p \in Seq(A)
    BY Zenon DEF IsSequence
<1>2. PICK B : q \in Seq(B)
    BY Zenon DEF IsSequence
<1>3. p \in Seq(A \cup B) /\ q \in Seq(A \cup B)
    BY <1>1, <1>2
<1>4. p \o q \in Seq(A \cup B)
    BY <1>3
<1>5. ASSUME NEW e PROVE p \o Append(q, e) = Append(p \o q, e)
    <2>1. p \in Seq(A \cup B \cup {e}) /\ q \in Seq(A \cup B \cup {e})
        BY <1>1, <1>2
    <2>2. QED
        BY <2>1
<1>6. QED
    BY <1>3, <1>4, <1>5 DEF IsSequence

\* One more event of a run.
LEMMA EventAdded ==
    ASSUME NEW pub, IsSequence(pub), InOrder(pub), NEW e, Kinds(pub, e.run) = Expected(e.kind)
    PROVE  LET q == Append(pub, e)
           IN  /\ IsSequence(q) /\ InOrder(q)
               /\ Kinds(q, e.run) = Kinds(pub, e.run) \cup {e.kind}
               /\ Told(q, e.run) =
                    Told(pub, e.run) \cup (IF e.kind = "Finalized" THEN {e.accepted} ELSE {})
               /\ \A run : run # e.run => Told(q, run) = Told(pub, run)
               /\ \A i \in 1..Len(q) : (i \in 1..Len(pub) /\ q[i] = pub[i]) \/ q[i] = e
<1> DEFINE q == Append(pub, e)
           n == Len(pub)
<1>1. /\ IsSequence(q) /\ n \in Nat /\ Len(q) = n + 1
      /\ \A i \in 1..n : q[i] = pub[i]
      /\ q[n + 1] = e
    BY SequenceAppend
<1> HIDE DEF q
<1>2. \A i \in 1..Len(q) : i \in 1..n \/ i = n + 1
    BY <1>1
<1>3. \A i \in 1..n : i \in 1..Len(q)
    BY <1>1
<1>4. n + 1 \in 1..Len(q)
    BY <1>1
<1>5. ASSUME NEW j \in 1..n PROVE Before(q, j) = Before(pub, j)
    <2>1. \A k \in 1..(j - 1) : k \in 1..n
        BY <1>1
    <2>2. QED
        BY <1>1, <2>1, Zenon DEF Before
<1>6. Before(q, n + 1) = Kinds(pub, e.run)
    <2>1. (n + 1) - 1 = n
        BY <1>1
    <2>2. QED
        BY <1>1, <2>1, Zenon DEF Before, Kinds
<1>7. InOrder(q)
    BY <1>1, <1>2, <1>5, <1>6, Zenon DEF InOrder
<1>8. Kinds(q, e.run) = Kinds(pub, e.run) \cup {e.kind}
    BY <1>1, <1>2, <1>3, <1>4 DEF Kinds
<1>9. Told(q, e.run) = Told(pub, e.run) \cup (IF e.kind = "Finalized" THEN {e.accepted} ELSE {})
    BY <1>1, <1>2, <1>3, <1>4, Zenon DEF Told
<1>10. ASSUME NEW run, run # e.run PROVE Told(q, run) = Told(pub, run)
    BY <1>1, <1>2, <1>3, <1>4, <1>10, Zenon DEF Told
<1>11. QED
    BY <1>1, <1>2, <1>7, <1>8, <1>9, <1>10 DEF q

-----------------------------------------------------------------------------
(* What a session has sent *)

Plain(r) == r = PlainHandshake(r.seq, r.message)

\* The sealed records of a run: one per number, every Finished completes a
\* session in L, and the data is the answer that the application was told.
RunSent(S, run, L, told) ==
    /\ \A x, y \in S : x.epoch = 1 /\ y.epoch = 1 /\ x.seq = y.seq => x = y
    /\ \A r \in S : r.epoch = 1 /\ r.content = "handshake" => Opened(r.message, L)
    /\ \A r \in S : r.content = "data" => r.key[3] = run /\ told = {Body(r.message)}

Below(S, next) ==
    /\ next \in Nat
    /\ \A r \in S : r.epoch = 1 => r.seq \in Nat /\ r.seq < next

SentIn(out) == UNION {Elements(out[i].records) : i \in 1..Len(out)}

\* One more transmission adds its records to what is sent.
LEMMA SentInAppend ==
    ASSUME NEW out, IsSequence(out), NEW t
    PROVE  /\ IsSequence(Append(out, t))
           /\ SentIn(Append(out, t)) = SentIn(out) \cup Elements(t.records)
           /\ \A i \in 1..Len(Append(out, t)) :
                 (i \in 1..Len(out) /\ Append(out, t)[i] = out[i]) \/ Append(out, t)[i] = t
<1> DEFINE q == Append(out, t)
<1>1. /\ IsSequence(q) /\ Len(out) \in Nat /\ Len(q) = Len(out) + 1
      /\ \A i \in 1..Len(out) : q[i] = out[i]
      /\ q[Len(out) + 1] = t
    BY SequenceAppend
<1> HIDE DEF q
<1>2. /\ \A i \in 1..Len(q) : i \in 1..Len(out) \/ i = Len(out) + 1
      /\ \A i \in 1..Len(out) : i \in 1..Len(q)
      /\ Len(out) + 1 \in 1..Len(q)
    BY <1>1
<1>3. SentIn(q) \subseteq SentIn(out) \cup Elements(t.records)
    BY <1>1, <1>2, Zenon DEF SentIn
<1>4. SentIn(out) \cup Elements(t.records) \subseteq SentIn(q)
    BY <1>1, <1>2, Zenon DEF SentIn
<1>5. QED
    BY <1>1, <1>2, <1>3, <1>4, Zenon DEF q

\* Plaintext is sent.
LEMMA PlaintextSent ==
    ASSUME NEW S, NEW run, NEW L, NEW told, RunSent(S, run, L, told), NEW next, Below(S, next),
           NEW F, \A r \in F : r.epoch = 0 /\ r.content # "data"
    PROVE  RunSent(S \cup F, run, L, told) /\ Below(S \cup F, next)
<1>1. \A r \in F : r.epoch # 1
    OBVIOUS
<1>2. QED
    BY <1>1, Zenon DEF RunSent, Below

\* A record is sealed under the next number.
LEMMA SealedSent ==
    ASSUME NEW S, NEW run, NEW L, NEW told, RunSent(S, run, L, told), NEW next, Below(S, next),
           NEW L2, L \subseteq L2, NEW told2, told # {} => told2 = told,
           NEW r, r.epoch = 1, r.seq = next,
           \/ r.content = "handshake" /\ Opened(r.message, L2)
           \/ r.content = "data" /\ r.key[3] = run /\ told2 = {Body(r.message)}
    PROVE  RunSent(S \cup {r}, run, L2, told2) /\ Below(S \cup {r}, next + 1)
<1>1. next \in Nat /\ \A x \in S : x.epoch = 1 => x.seq \in Nat /\ x.seq < next /\ x.seq # next
    BY DEF Below
<1>2. Below(S \cup {r}, next + 1)
    BY <1>1 DEF Below
<1>3. \A x, y \in S \cup {r} : x.epoch = 1 /\ y.epoch = 1 /\ x.seq = y.seq => x = y
    BY <1>1, Zenon DEF RunSent
<1>4. \A x \in S \cup {r} : x.epoch = 1 /\ x.content = "handshake" => Opened(x.message, L2)
    BY Zenon DEF RunSent, Opened
<1>5. \A x \in S \cup {r} : x.content = "data" => x.key[3] = run /\ told2 = {Body(x.message)}
    <2>1. ASSUME NEW x \in S, x.content = "data"
          PROVE  x.key[3] = run /\ told2 = {Body(x.message)}
        BY <2>1, Zenon DEF RunSent
    <2>2. QED
        BY <2>1, Zenon
<1>6. QED
    BY <1>2, <1>3, <1>4, <1>5, Zenon DEF RunSent

-----------------------------------------------------------------------------
(* A session *)

KindsIn(phase) ==
    IF phase = "Finalized" THEN {"Connected", "Finalized"}
    ELSE IF phase = "Connected" THEN {"Connected"} ELSE {}

Decided(s) == IF s.phase = "Finalized" THEN {s.decision} ELSE {}

\* A live session: the records S it has sent, the sessions L that connected
\* and the events pub that were published, its own included.
SessionInv(s, S, L, pub) ==
    /\ IsSession(s)
    /\ s.phase \in {"AwaitingClientHello", "AwaitingClientFlight", "Connected", "Finalized"}
    /\ s.decision # None <=> s.phase = "Finalized"
    /\ Kinds(pub, s.run) = KindsIn(s.phase)
    /\ Told(pub, s.run) = Decided(s)
    /\ Below(S, s.next1)
    /\ RunSent(S, s.run, L, Decided(s))
    /\ s.key # None => s.key[3] = s.run
    /\ Established(s) => /\ s.key # None
                         /\ Link(s) \in L
                         /\ s.finished # None => Opened(s.finished, L)
    /\ s.phase = "AwaitingClientFlight" =>
            Len(s.flight) = 3 /\ \A i \in 1..3 : Plain(s.flight[i])

\* What is transmitted: handshake records, or the answer with or without the
\* KEK.
Transmission(t, s) ==
    /\ Len(t.records) \in Nat \ {0}
    /\ \/ \A i \in 1..Len(t.records) : t.records[i].content # "data"
       \/ /\ s.phase = "Finalized"
          /\ t.records[1].content = "data"
          /\ Body(t.records[1].message) = s.decision
          /\ t.kek = s.decision

Links(L, s) == IF Established(s) THEN L \cup {Link(s)} ELSE L

\* A call of receive on session s, while it has not failed.
Receives(s, x, S, L, pub) ==
    /\ SessionInv(x.state, S \cup SentIn(x.out), Links(L, x.state), pub \o x.events)
    /\ x.state.run = s.run
    /\ x.state.route = s.route
    /\ \A i \in 1..Len(x.out) : Transmission(x.out[i], x.state)
    /\ Established(s) => Established(x.state) /\ Link(x.state) = Link(s)
    /\ InOrder(pub \o x.events)
    /\ \A i \in 1..Len(x.events) : x.events[i].run = s.run
    /\ \A run : run # s.run => Told(pub \o x.events, run) = Told(pub, run)
    /\ s.phase = "Finalized" => Decided(x.state) = Decided(s)
    /\ x.asked = 0 => x.state.decision = s.decision
    /\ x.asked = 1 => x.state.decision # None

ReceiveFields == {"state", "out", "events", "asked", "stop"}

ReceiveFold(s, x, S, L, pub) ==
    /\ x = [f \in ReceiveFields |-> x[f]]
    /\ IsSequence(x.out)
    /\ IsSequence(x.events)
    /\ x.asked \in {0, 1}
    /\ x.asked = 1 => s.decision = None
    /\ ~x.stop => Receives(s, x, S, L, pub)

\* A session changes in what its invariant does not depend on.
LEMMA SessionKept ==
    ASSUME NEW c, NEW S, NEW L, NEW pub, SessionInv(c, S, L, pub), NEW d, IsSession(d),
           d.run = c.run, d.phase = c.phase, d.decision = c.decision, d.next1 = c.next1,
           \/ /\ d.key = c.key /\ d.transcript = c.transcript
              /\ d.finished \in {c.finished, None}
           \/ ~Established(c) /\ d.key[3] = d.run,
           \/ d.flight = c.flight
           \/ Len(d.flight) = 3 /\ \A i \in 1..3 : Plain(d.flight[i])
    PROVE  SessionInv(d, S, L, pub)
<1>1. Established(d) = Established(c) /\ Decided(d) = Decided(c)
    BY Zenon DEF Established, Decided
<1>2. d.key # None => d.key[3] = d.run
    BY Zenon DEF SessionInv
<1>3. Established(d) => /\ d.key # None
                        /\ Link(d) \in L
                        /\ d.finished # None => Opened(d.finished, L)
    BY <1>1, Zenon DEF SessionInv, Link
<1>4. d.phase = "AwaitingClientFlight" =>
            Len(d.flight) = 3 /\ \A i \in 1..3 : Plain(d.flight[i])
    BY Zenon DEF SessionInv
<1>5. QED
    BY <1>1, <1>2, <1>3, <1>4, Zenon DEF SessionInv

-----------------------------------------------------------------------------
(* What a session does with one record *)

IsReceiving(x) == x = [f \in ReceiveFields |-> x[f]]

\* The session fails: what it returned so far does not matter any more.
LEMMA Fails ==
    ASSUME NEW s, NEW x, NEW S, NEW L, NEW pub, ReceiveFold(s, x, S, L, pub)
    PROVE  ReceiveFold(s, SessionFails(x), S, L, pub)
<1> DEFINE y == SessionFails(x)
<1>1. IsReceiving(x)
    BY Zenon DEF ReceiveFold, IsReceiving
<1>2. /\ IsReceiving(y) /\ y.stop = TRUE
      /\ y.out = x.out /\ y.events = x.events /\ y.asked = x.asked
    BY <1>1, Zenon DEF SessionFails, IsReceiving, ReceiveFields
<1> HIDE DEF y
<1>3. QED
    BY <1>2, Zenon DEF ReceiveFold, IsReceiving, y

\* A step of a session that was not and is not connected.
LEMMA HandshakeGoesOn ==
    ASSUME NEW s, NEW x, NEW S, NEW L, NEW pub, ReceiveFold(s, x, S, L, pub), ~x.stop,
           ~Established(x.state), NEW y, IsReceiving(y), ~y.stop, y.events = x.events,
           y.asked = x.asked, IsSequence(y.out), IsSession(y.state),
           NEW F, \A r \in F : r.epoch = 0 /\ r.content # "data",
           SentIn(y.out) = SentIn(x.out) \cup F,
           \A i \in 1..Len(y.out) : \/ i \in 1..Len(x.out) /\ y.out[i] = x.out[i]
                                    \/ Transmission(y.out[i], y.state),
           y.state.run = x.state.run, y.state.route = x.state.route,
           y.state.decision = x.state.decision, y.state.next1 = x.state.next1,
           y.state.phase \in {"AwaitingClientHello", "AwaitingClientFlight"},
           y.state.key # None => y.state.key[3] = y.state.run,
           y.state.phase = "AwaitingClientFlight" =>
                Len(y.state.flight) = 3 /\ \A i \in 1..3 : Plain(y.state.flight[i])
    PROVE  ReceiveFold(s, y, S, L, pub)
<1> DEFINE c == x.state
           d == y.state
           T == S \cup SentIn(x.out)
<1>1. /\ SessionInv(c, T, Links(L, c), pub \o x.events) /\ Receives(s, x, S, L, pub)
      /\ x.asked \in {0, 1} /\ IsSequence(x.events) /\ (x.asked = 1 => s.decision = None)
    BY Zenon DEF ReceiveFold, Receives
<1>2. ~Established(d) /\ Links(L, d) = L /\ Links(L, c) = L /\ Decided(d) = {} /\ Decided(c) = {}
      /\ KindsIn(d.phase) = {} /\ KindsIn(c.phase) = {} /\ c.decision = None
    <2>1. c.phase \notin {"Connected", "Finalized"} /\ d.phase \notin {"Connected", "Finalized"}
        BY Zenon DEF Established
    <2>2. QED
        BY <1>1, <2>1, Zenon DEF Established, Links, Decided, KindsIn, SessionInv
<1>3. S \cup SentIn(y.out) = T \cup F
    BY Zenon
<1> HIDE DEF c, d, T
<1>4. RunSent(T \cup F, c.run, L, {}) /\ Below(T \cup F, c.next1)
    <2>1. RunSent(T, c.run, L, {}) /\ Below(T, c.next1)
        BY <1>1, <1>2, Zenon DEF SessionInv
    <2>2. QED
        BY <2>1, PlaintextSent, Zenon
<1>5. SessionInv(d, T \cup F, L, pub \o x.events)
    <2>1. /\ Kinds(pub \o x.events, c.run) = {} /\ Told(pub \o x.events, c.run) = {}
        BY <1>1, <1>2, Zenon DEF SessionInv
    <2>2. QED
        BY <1>2, <1>4, <2>1, Zenon DEF SessionInv, c, d
<1>6. ~Established(s) /\ s.phase # "Finalized"
    BY <1>1, <1>2, Zenon DEF Receives, Established, c
<1>7. \A i \in 1..Len(y.out) : Transmission(y.out[i], d)
    <2>1. ASSUME NEW i \in 1..Len(y.out), i \in 1..Len(x.out), y.out[i] = x.out[i]
          PROVE  Transmission(y.out[i], d)
        <3>1. Transmission(x.out[i], c)
            BY <1>1, <2>1, Zenon DEF Receives, c
        <3>2. c.phase # "Finalized"
            BY <1>2, Zenon DEF Established, c
        <3>3. QED
            BY <2>1, <3>1, <3>2, Zenon DEF Transmission
    <2>2. QED
        BY <2>1, Zenon DEF d
<1>8. Receives(s, y, S, L, pub)
    BY <1>1, <1>2, <1>3, <1>5, <1>6, <1>7, Zenon DEF Receives, c, d
<1>9. QED
    BY <1>1, <1>8, Zenon DEF ReceiveFold, IsReceiving

\* A session changes in what its invariant does not depend on, and nothing is
\* sent.
LEMMA Quietly ==
    ASSUME NEW s, NEW x, NEW S, NEW L, NEW pub, ReceiveFold(s, x, S, L, pub), ~x.stop,
           NEW y, IsReceiving(y), ~y.stop, y.events = x.events, y.asked = x.asked,
           y.out = x.out, IsSession(y.state),
           \A f \in {"run", "route", "phase", "decision", "next1", "key", "transcript", "flight"} :
                y.state[f] = x.state[f],
           y.state.finished \in {x.state.finished, None}
    PROVE  ReceiveFold(s, y, S, L, pub)
<1> DEFINE c == x.state
           d == y.state
<1>1. /\ SessionInv(c, S \cup SentIn(x.out), Links(L, c), pub \o x.events)
      /\ Receives(s, x, S, L, pub)
      /\ x.asked \in {0, 1} /\ IsSequence(x.events) /\ (x.asked = 1 => s.decision = None)
      /\ IsSequence(x.out)
    BY Zenon DEF ReceiveFold, Receives
<1>2. /\ d.run = c.run /\ d.route = c.route /\ d.phase = c.phase /\ d.decision = c.decision
      /\ d.next1 = c.next1 /\ d.key = c.key /\ d.transcript = c.transcript
      /\ d.flight = c.flight /\ d.finished \in {c.finished, None}
    BY Zenon
<1> HIDE DEF c, d
<1>3. Established(d) = Established(c) /\ Link(d) = Link(c) /\ Links(L, d) = Links(L, c)
      /\ Decided(d) = Decided(c)
    BY <1>2, Zenon DEF Established, Link, Links, Decided
<1>4. SessionInv(d, S \cup SentIn(x.out), Links(L, c), pub \o x.events)
    <2>1. IsSession(d)
        BY Zenon DEF d
    <2>2. QED
        BY <1>1, <1>2, <2>1, SessionKept
<1>5. \A i \in 1..Len(x.out) : Transmission(x.out[i], d)
    BY <1>1, <1>2, Zenon DEF Receives, Transmission, c
<1>6. Receives(s, y, S, L, pub)
    BY <1>1, <1>2, <1>3, <1>4, <1>5, Zenon DEF Receives, c, d
<1>7. QED
    BY <1>1, <1>6, Zenon DEF ReceiveFold, IsReceiving

\* A Finished flight: both numbers move on.
LEMMA FinishedFlightFlies ==
    ASSUME NEW x, IsReceiving(x), IsSession(x.state)
    PROVE  LET y == FinishedFlight(x)
               c == x.state
           IN  /\ IsReceiving(y) /\ IsSession(y.state)
               /\ y.stop = x.stop /\ y.events = x.events /\ y.asked = x.asked
               /\ y.out = Append(x.out,
                    [records |-> <<ChangeCipherSpec(c.next0),
                                   Sealed(c.next1, "handshake", c.key, c.finished)>>,
                     kek |-> FALSE])
               /\ y.state.next1 = c.next1 + 1
               /\ \A f \in SessionFields \ {"next0", "next1"} : y.state[f] = c[f]
BY Zenon DEF FinishedFlight, Transmit, IsReceiving, ReceiveFields, IsSession, SessionFields

\* The two records of a Finished flight.
LEMMA FinishedRecords ==
    ASSUME NEW n0, NEW n1, NEW key, NEW finished
    PROVE  LET ccs == ChangeCipherSpec(n0)
               sealed == Sealed(n1, "handshake", key, finished)
               records == <<ccs, sealed>>
           IN  /\ Len(records) = 2 /\ Elements(records) = {ccs} \cup {sealed}
               /\ \A i \in 1..2 : records[i].content # "data"
               /\ ccs.epoch = 0 /\ ccs.content # "data"
               /\ sealed.epoch = 1 /\ sealed.seq = n1 /\ sealed.content = "handshake"
               /\ sealed.message = finished
<1> DEFINE ccs == ChangeCipherSpec(n0)
           sealed == Sealed(n1, "handshake", key, finished)
           records == <<ccs, sealed>>
<1>1. /\ ccs.epoch = 0 /\ ccs.content = "ccs"
      /\ sealed.epoch = 1 /\ sealed.seq = n1 /\ sealed.content = "handshake"
      /\ sealed.message = finished
    BY Zenon DEF ChangeCipherSpec, Sealed, Record
<1> HIDE DEF ccs, sealed
<1>2. Len(records) = 2 /\ records[1] = ccs /\ records[2] = sealed
    BY Zenon
<1>3. Elements(records) = {ccs} \cup {sealed}
    BY <1>2 DEF Elements
<1>4. QED
    BY <1>1, <1>2, <1>3 DEF ccs, sealed

\* The flight is added to what the session has sent.
LEMMA FinishedSent ==
    ASSUME NEW S, NEW run, NEW L, NEW told, NEW next, NEW out, IsSequence(out),
           RunSent(S \cup SentIn(out), run, L, told), Below(S \cup SentIn(out), next),
           NEW L2, L \subseteq L2, NEW n0, NEW key, NEW finished, Opened(finished, L2)
    PROVE  LET t == [records |-> <<ChangeCipherSpec(n0),
                                   Sealed(next, "handshake", key, finished)>>, kek |-> FALSE]
               q == Append(out, t)
           IN  /\ IsSequence(q)
               /\ RunSent(S \cup SentIn(q), run, L2, told)
               /\ Below(S \cup SentIn(q), next + 1)
               /\ \A c : \A i \in 1..Len(q) : \/ i \in 1..Len(out) /\ q[i] = out[i]
                                              \/ Transmission(q[i], c)
<1> DEFINE ccs == ChangeCipherSpec(n0)
           sealed == Sealed(next, "handshake", key, finished)
           records == <<ccs, sealed>>
           t == [records |-> records, kek |-> FALSE]
           q == Append(out, t)
           T == S \cup SentIn(out)
<1>1. /\ Len(records) = 2 /\ Elements(records) = {ccs} \cup {sealed}
      /\ \A i \in 1..2 : records[i].content # "data"
      /\ ccs.epoch = 0 /\ ccs.content # "data"
      /\ sealed.epoch = 1 /\ sealed.seq = next /\ sealed.content = "handshake"
      /\ sealed.message = finished
    BY FinishedRecords
<1> HIDE DEF ccs, sealed, records
<1>2. t.records = records
    BY Zenon
<1> HIDE DEF t
<1>3. /\ IsSequence(q) /\ SentIn(q) = SentIn(out) \cup Elements(t.records)
      /\ \A i \in 1..Len(q) : (i \in 1..Len(out) /\ q[i] = out[i]) \/ q[i] = t
    BY SentInAppend, Zenon
<1> HIDE DEF q
<1>4. S \cup SentIn(q) = (T \cup {ccs}) \cup {sealed}
    BY <1>1, <1>2, <1>3, Zenon
<1> HIDE DEF T
<1>5. RunSent(T \cup {ccs}, run, L, told) /\ Below(T \cup {ccs}, next)
    <2>1. \A r \in {ccs} : r.epoch = 0 /\ r.content # "data"
        BY <1>1, Zenon
    <2>2. RunSent(T, run, L, told) /\ Below(T, next)
        BY Zenon DEF T
    <2>3. QED
        BY <2>1, <2>2, PlaintextSent, Zenon
<1>6. /\ RunSent((T \cup {ccs}) \cup {sealed}, run, L2, told)
      /\ Below((T \cup {ccs}) \cup {sealed}, next + 1)
    <2>1. told # {} => told = told
        BY Zenon
    <2>2. QED
        BY <1>1, <1>5, <2>1, SealedSent
<1>7. \A c : Transmission(t, c)
    <2>1. Len(t.records) = 2 /\ \A i \in 1..Len(t.records) : t.records[i].content # "data"
        BY <1>1, <1>2, Zenon
    <2>2. Len(t.records) \in Nat \ {0}
        BY <2>1
    <2>3. QED
        BY <2>1, <2>2, Zenon DEF Transmission
<1>8. \A c : \A i \in 1..Len(q) : \/ i \in 1..Len(out) /\ q[i] = out[i]
                                  \/ Transmission(q[i], c)
    BY <1>3, <1>7, Zenon
<1>9. QED
    BY <1>3, <1>4, <1>6, <1>8, Zenon DEF q, t, records, ccs, sealed

\* The joiner repeats its Finished flight, and gets ours again.
LEMMA FinishedAgain ==
    ASSUME NEW s, NEW x, NEW S, NEW L, NEW pub, ReceiveFold(s, x, S, L, pub), ~x.stop,
           Established(x.state), x.state.finished # None
    PROVE  ReceiveFold(s, FinishedFlight(x), S, L, pub)
<1> DEFINE c == x.state
           y == FinishedFlight(x)
           d == y.state
           T == S \cup SentIn(x.out)
           L2 == Links(L, c)
           p == pub \o x.events
<1>1. /\ SessionInv(c, T, L2, p) /\ Receives(s, x, S, L, pub) /\ IsReceiving(x)
      /\ x.asked \in {0, 1} /\ IsSequence(x.events) /\ (x.asked = 1 => s.decision = None)
      /\ IsSequence(x.out)
    BY Zenon DEF ReceiveFold, Receives, IsReceiving
<1>2. IsSession(c) /\ Below(T, c.next1) /\ RunSent(T, c.run, L2, Decided(c))
      /\ Opened(c.finished, L2) /\ c.phase \in {"Connected", "Finalized"}
    BY <1>1, Zenon DEF SessionInv, Established
<1>3. /\ IsReceiving(y) /\ IsSession(d)
      /\ y.stop = x.stop /\ y.events = x.events /\ y.asked = x.asked
      /\ y.out = Append(x.out,
            [records |-> <<ChangeCipherSpec(c.next0),
                           Sealed(c.next1, "handshake", c.key, c.finished)>>, kek |-> FALSE])
      /\ d.next1 = c.next1 + 1
      /\ \A f \in SessionFields \ {"next0", "next1"} : d[f] = c[f]
    BY <1>1, <1>2, FinishedFlightFlies, Zenon
<1> HIDE DEF y, d, c
<1>4. /\ IsSequence(y.out)
      /\ RunSent(S \cup SentIn(y.out), c.run, L2, Decided(c))
      /\ Below(S \cup SentIn(y.out), c.next1 + 1)
      /\ \A i \in 1..Len(y.out) : \/ i \in 1..Len(x.out) /\ y.out[i] = x.out[i]
                                  \/ Transmission(y.out[i], d)
    <2>1. /\ IsSequence(x.out) /\ RunSent(S \cup SentIn(x.out), c.run, L2, Decided(c))
          /\ Below(S \cup SentIn(x.out), c.next1) /\ L2 \subseteq L2 /\ Opened(c.finished, L2)
        BY <1>1, <1>2, Zenon
    <2> HIDE DEF L2
    <2> DEFINE q == Append(x.out, [records |-> <<ChangeCipherSpec(c.next0),
                           Sealed(c.next1, "handshake", c.key, c.finished)>>, kek |-> FALSE])
    <2>2. /\ IsSequence(q)
          /\ RunSent(S \cup SentIn(q), c.run, L2, Decided(c))
          /\ Below(S \cup SentIn(q), c.next1 + 1)
          /\ \A e : \A i \in 1..Len(q) : \/ i \in 1..Len(x.out) /\ q[i] = x.out[i]
                                         \/ Transmission(q[i], e)
        BY <2>1, FinishedSent, Zenon
    <2>3. y.out = q
        BY <1>3, Zenon
    <2> HIDE DEF q
    <2>4. QED
        BY <2>2, <2>3, Zenon
<1>5. /\ d.run = c.run /\ d.route = c.route /\ d.phase = c.phase /\ d.decision = c.decision
      /\ d.key = c.key /\ d.transcript = c.transcript /\ d.finished = c.finished
    BY <1>3, Zenon DEF SessionFields
<1>6. Established(d) = Established(c) /\ Link(d) = Link(c) /\ Links(L, d) = L2
      /\ Decided(d) = Decided(c)
    BY <1>5, Zenon DEF Established, Link, Links, Decided
<1> HIDE DEF L2, p, T
<1>7. SessionInv(d, S \cup SentIn(y.out), L2, p)
    <2>1. d.phase # "AwaitingClientFlight"
        BY <1>2, <1>5, Zenon
    <2>2. QED
        BY <1>1, <1>3, <1>4, <1>5, <1>6, <2>1, Zenon DEF SessionInv
<1>8. \A i \in 1..Len(y.out) : Transmission(y.out[i], d)
    BY <1>1, <1>4, <1>5, Zenon DEF Receives, Transmission, c
<1>9. Receives(s, y, S, L, pub)
    BY <1>1, <1>3, <1>5, <1>6, <1>7, <1>8, Zenon DEF Receives, c, d, p
<1>10. QED
    BY <1>1, <1>3, <1>4, <1>9 DEF ReceiveFold, IsReceiving, y

\* The joiner's Finished is right: the session connects.
LEMMA Connects ==
    ASSUME NEW s, NEW x, NEW S, NEW L, NEW pub, IsSequence(pub), ReceiveFold(s, x, S, L, pub),
           ~x.stop, x.state.phase = "AwaitingClientFlight", x.state.key # None, NEW r
    PROVE  LET c == x.state
               before == Append(c.transcript, r.message)
               finished == Finished(c.hello.seq + 3, "server", c.key, before)
           IN  ReceiveFold(s, Report(FinishedFlight([x EXCEPT !.state =
                        [c EXCEPT !.phase = "Connected", !.seen = @ \cup {r.seq},
                                  !.finished = finished, !.transcript = Append(before, finished)]]),
                    [run |-> c.run, kind |-> "Connected", accepted |-> FALSE]), S, L, pub)
<1> DEFINE c == x.state
           before == Append(c.transcript, r.message)
           finished == Finished(c.hello.seq + 3, "server", c.key, before)
           b == [c EXCEPT !.phase = "Connected", !.seen = @ \cup {r.seq},
                          !.finished = finished, !.transcript = Append(before, finished)]
           w == [x EXCEPT !.state = b]
           z == FinishedFlight(w)
           e == [run |-> c.run, kind |-> "Connected", accepted |-> FALSE]
           y == Report(z, e)
           d == y.state
           T == S \cup SentIn(x.out)
           p == pub \o x.events
<1>1. /\ SessionInv(c, T, Links(L, c), p) /\ Receives(s, x, S, L, pub) /\ IsReceiving(x)
      /\ x.asked \in {0, 1} /\ IsSequence(x.events) /\ (x.asked = 1 => s.decision = None)
      /\ IsSequence(x.out)
    BY Zenon DEF ReceiveFold, Receives, IsReceiving
<1>2. ~Established(c) /\ Links(L, c) = L /\ Decided(c) = {} /\ KindsIn(c.phase) = {}
    BY Zenon DEF Established, Links, Decided, KindsIn
<1>3. IsSession(c) /\ Below(T, c.next1) /\ RunSent(T, c.run, L, {}) /\ c.key[3] = c.run
      /\ Kinds(p, c.run) = {} /\ Told(p, c.run) = {} /\ c.decision = None
    BY <1>1, <1>2, Zenon DEF SessionInv
<1>4. Body(finished) = <<"server", c.key, before>>
    BY Zenon DEF Finished, Message, Body
<1> HIDE DEF finished, before
<1>5. /\ IsSession(b) /\ b.phase = "Connected" /\ b.finished = finished
      /\ b.transcript = Append(before, finished)
      /\ \A f \in SessionFields \ {"phase", "seen", "finished", "transcript"} : b[f] = c[f]
    BY <1>3, Zenon DEF IsSession, SessionFields
<1>6. /\ IsReceiving(w) /\ w.state = b /\ w.out = x.out /\ w.events = x.events
      /\ w.asked = x.asked /\ w.stop = x.stop
    BY <1>1, Zenon DEF IsReceiving, ReceiveFields
<1> HIDE DEF b, w, c
<1>7. /\ IsReceiving(z) /\ IsSession(z.state)
      /\ z.stop = w.stop /\ z.events = w.events /\ z.asked = w.asked
      /\ z.out = Append(w.out,
            [records |-> <<ChangeCipherSpec(b.next0),
                           Sealed(b.next1, "handshake", b.key, b.finished)>>, kek |-> FALSE])
      /\ z.state.next1 = b.next1 + 1
      /\ \A f \in SessionFields \ {"next0", "next1"} : z.state[f] = b[f]
    BY <1>5, <1>6, FinishedFlightFlies, Zenon
<1> HIDE DEF z
<1>8. /\ IsReceiving(y) /\ y.state = z.state /\ y.out = z.out /\ y.asked = z.asked
      /\ y.stop = z.stop /\ y.events = Append(z.events, e)
    BY <1>7, Zenon DEF Report, IsReceiving, ReceiveFields
<1> HIDE DEF y, d, e
<1>9. /\ d.run = c.run /\ d.route = c.route /\ d.phase = "Connected" /\ d.decision = None
      /\ d.key = c.key /\ d.transcript = Append(before, finished) /\ d.finished = finished
      /\ d.next1 = c.next1 + 1 /\ IsSession(d)
    BY <1>3, <1>5, <1>7, <1>8 DEF SessionFields, d
<1>10. /\ b.next1 = c.next1 /\ b.key = c.key
    BY <1>5, Zenon DEF SessionFields
<1> DEFINE L2 == L \cup {Link(d)}
<1>11. Established(d) /\ Links(L, d) = L2 /\ Decided(d) = {} /\ KindsIn(d.phase) = {"Connected"}
    BY <1>9, Zenon DEF Established, Links, Decided, KindsIn
<1>12. Opened(finished, L2)
    BY <1>4, <1>9 DEF Opened, Link
<1> HIDE DEF L2, T, p
<1>13. /\ IsSequence(y.out)
       /\ RunSent(S \cup SentIn(y.out), c.run, L2, {})
       /\ Below(S \cup SentIn(y.out), c.next1 + 1)
       /\ \A i \in 1..Len(y.out) : \/ i \in 1..Len(x.out) /\ y.out[i] = x.out[i]
                                   \/ Transmission(y.out[i], d)
    <2> DEFINE q == Append(x.out, [records |-> <<ChangeCipherSpec(b.next0),
                           Sealed(c.next1, "handshake", c.key, finished)>>, kek |-> FALSE])
    <2>0. /\ RunSent(S \cup SentIn(x.out), c.run, L, Decided(c))
          /\ Below(S \cup SentIn(x.out), c.next1) /\ IsSequence(x.out)
        BY <1>1, <1>2, <1>3, Zenon DEF T
    <2>1. L \subseteq L2
        BY Zenon DEF L2
    <2>2. /\ IsSequence(q)
          /\ RunSent(S \cup SentIn(q), c.run, L2, Decided(c))
          /\ Below(S \cup SentIn(q), c.next1 + 1)
          /\ \A a : \A i \in 1..Len(q) : \/ i \in 1..Len(x.out) /\ q[i] = x.out[i]
                                         \/ Transmission(q[i], a)
        BY <1>12, <2>0, <2>1, FinishedSent, Zenon
    <2>3. y.out = q
        BY <1>5, <1>6, <1>7, <1>8, <1>10, Zenon
    <2> HIDE DEF q
    <2>4. QED
        BY <1>2, <2>2, <2>3, Zenon
<1>14. /\ e.run = c.run /\ e.kind = "Connected"
       /\ IsSequence(y.events) /\ pub \o y.events = Append(p, e) /\ IsSequence(p)
       /\ \A i \in 1..Len(y.events) : y.events[i].run = c.run
    <2>1. e.run = c.run /\ e.kind = "Connected" /\ y.events = Append(x.events, e)
        BY <1>6, <1>7, <1>8 DEF e
    <2>2. pub \o y.events = Append(p, e) /\ IsSequence(p)
        <3>1. pub \o Append(x.events, e) = Append(pub \o x.events, e) /\ IsSequence(pub \o x.events)
            BY <1>1, Concatenation
        <3>2. QED
            BY <2>1, <3>1, Zenon DEF p
    <2>3. \A i \in 1..Len(x.events) : x.events[i].run = c.run
        BY <1>1, Zenon DEF Receives, c
    <2>4. /\ IsSequence(y.events) /\ Len(x.events) \in Nat /\ Len(y.events) = Len(x.events) + 1
          /\ \A i \in 1..Len(x.events) : y.events[i] = x.events[i]
          /\ y.events[Len(x.events) + 1] = e
        <3> DEFINE q == Append(x.events, e)
        <3>1. /\ IsSequence(q) /\ Len(x.events) \in Nat /\ Len(q) = Len(x.events) + 1
              /\ \A i \in 1..Len(x.events) : q[i] = x.events[i]
              /\ q[Len(x.events) + 1] = e
            BY <1>1, SequenceAppend
        <3>2. y.events = q
            BY <2>1, Zenon
        <3> HIDE DEF q
        <3>3. QED
            BY <3>1, <3>2, Zenon
    <2>5. QED
        BY <2>1, <2>2, <2>3, <2>4
<1>15. /\ InOrder(Append(p, e)) /\ Kinds(Append(p, e), c.run) = {"Connected"}
       /\ Told(Append(p, e), c.run) = {}
       /\ \A run : run # c.run => Told(Append(p, e), run) = Told(p, run)
    <2>1. InOrder(p) /\ Kinds(p, e.run) = Expected(e.kind)
        BY <1>1, <1>3, <1>14, Zenon DEF Receives, Expected, p
    <2>2. /\ InOrder(Append(p, e))
          /\ Kinds(Append(p, e), e.run) = Kinds(p, e.run) \cup {e.kind}
          /\ Told(Append(p, e), e.run) =
                Told(p, e.run) \cup (IF e.kind = "Finalized" THEN {e.accepted} ELSE {})
          /\ \A run : run # e.run => Told(Append(p, e), run) = Told(p, run)
        BY <1>14, <2>1, EventAdded, Zenon
    <2>3. QED
        BY <1>3, <1>14, <2>2, Zenon
<1>16. SessionInv(d, S \cup SentIn(y.out), L2, pub \o y.events)
    <2>1. d.key # None /\ d.key[3] = d.run /\ Link(d) \in L2
        BY <1>3, <1>9, Zenon DEF L2, c
    <2>2. QED
        BY <1>9, <1>11, <1>12, <1>13, <1>14, <1>15, <2>1, Zenon DEF SessionInv
<1>17. \A i \in 1..Len(y.out) : Transmission(y.out[i], d)
    <2>1. \A i \in 1..Len(x.out) : Transmission(x.out[i], c) /\ c.phase # "Finalized"
        BY <1>1, <1>2, Zenon DEF Receives, Established, c
    <2>2. QED
        BY <1>13, <2>1, Zenon DEF Transmission
<1>18. ~Established(s) /\ s.phase # "Finalized" /\ c.run = s.run /\ c.route = s.route
       /\ c.decision = s.decision /\ x.asked = 0
       /\ \A run : run # s.run => Told(p, run) = Told(pub, run)
    BY <1>1, <1>2, <1>3, Zenon DEF Receives, Established, c, p
<1>19. Receives(s, y, S, L, pub)
    <2>1. y.asked = 0
        BY <1>6, <1>7, <1>8, <1>18
    <2>2. QED
        BY <1>3, <1>9, <1>11, <1>14, <1>15, <1>16, <1>17, <1>18, <2>1 DEF Receives, d
<1>20. ReceiveFold(s, y, S, L, pub)
    <2>1. y.asked = x.asked
        BY <1>6, <1>7, <1>8
    <2>2. QED
        BY <1>1, <1>8, <1>13, <1>14, <1>19, <2>1 DEF ReceiveFold, IsReceiving
<1>21. QED
    BY <1>20, Zenon DEF y, z, w, b, e, c, before, finished

\* What a JOIN_FIN.req does.
LEMMA FinalizeFields ==
    ASSUME NEW x, IsReceiving(x), IsSession(x.state), NEW accepts
    PROVE  LET y == FinalizeRequest(x, accepts)
               c == x.state
               dec == IF c.decision # None THEN c.decision ELSE accepts
           IN  /\ IsReceiving(y) /\ IsSession(y.state) /\ y.stop = x.stop
               /\ y.asked = IF c.decision # None THEN x.asked ELSE x.asked + 1
               /\ y.out = Append(x.out,
                    [records |-> <<Sealed(c.next1, "data", c.key, JoinFinRsp(dec))>>, kek |-> dec])
               /\ y.events = IF c.phase = "Finalized" THEN x.events
                             ELSE Append(x.events, [run |-> c.run, kind |-> "Finalized",
                                                    accepted |-> dec])
               /\ y.state.phase = "Finalized" /\ y.state.decision = dec
               /\ y.state.next1 = c.next1 + 1
               /\ \A f \in SessionFields \ {"phase", "decision", "next1"} : y.state[f] = c[f]
<1> DEFINE c == x.state
           dec == IF c.decision # None THEN c.decision ELSE accepts
           w == Decide(x, accepts)
           b == w.state
           z == Transmit([w EXCEPT !.state = [b EXCEPT !.phase = "Finalized", !.next1 = @ + 1]],
                         <<Sealed(b.next1, "data", b.key, JoinFinRsp(b.decision))>>, b.decision)
           e == [run |-> b.run, kind |-> "Finalized", accepted |-> b.decision]
           y == FinalizeRequest(x, accepts)
<1>1. /\ IsReceiving(w) /\ w.stop = x.stop /\ w.out = x.out /\ w.events = x.events
      /\ w.asked = IF c.decision # None THEN x.asked ELSE x.asked + 1
      /\ IsSession(b) /\ b.decision = dec
      /\ \A f \in SessionFields \ {"decision"} : b[f] = c[f]
    <2>1. CASE c.decision # None
        <3>1. w = x
            BY <2>1, Zenon DEF Decide
        <3> HIDE DEF w
        <3>2. QED
            BY <2>1, <3>1, Zenon
    <2>2. CASE c.decision = None
        <3>2. w = [x EXCEPT !.state = [c EXCEPT !.decision = accepts], !.asked = @ + 1]
            BY <2>2, Zenon DEF Decide
        <3> HIDE DEF w
        <3>3. /\ IsReceiving(w) /\ w.stop = x.stop /\ w.out = x.out /\ w.events = x.events
              /\ w.asked = x.asked + 1 /\ w.state = [c EXCEPT !.decision = accepts]
            BY <3>2, Zenon DEF IsReceiving, ReceiveFields
        <3>4. /\ IsSession(b) /\ b.decision = accepts
              /\ \A f \in SessionFields \ {"decision"} : b[f] = c[f]
            BY <3>3, Zenon DEF IsSession, SessionFields
        <3>5. QED
            BY <2>2, <3>3, <3>4, Zenon
    <2>3. QED
        BY <2>1, <2>2, Zenon
<1>2. y = IF b.phase = "Finalized" THEN z ELSE Report(z, e)
    BY Zenon DEF FinalizeRequest
<1> HIDE DEF w, b, c, dec
<1>3. b.next1 = c.next1 /\ b.key = c.key /\ b.run = c.run /\ b.phase = c.phase
    BY <1>1, Zenon DEF SessionFields
<1>4. /\ IsReceiving(z) /\ z.stop = w.stop /\ z.events = w.events /\ z.asked = w.asked
      /\ z.out = Append(w.out, [records |-> <<Sealed(b.next1, "data", b.key, JoinFinRsp(b.decision))>>,
                                kek |-> b.decision])
      /\ IsSession(z.state) /\ z.state.phase = "Finalized" /\ z.state.next1 = b.next1 + 1
      /\ z.state.decision = b.decision
      /\ \A f \in SessionFields \ {"phase", "next1"} : z.state[f] = b[f]
    BY <1>1, Zenon DEF Transmit, IsReceiving, ReceiveFields, IsSession, SessionFields, b
<1> HIDE DEF z, y
<1>5. /\ IsReceiving(y) /\ y.stop = z.stop /\ y.asked = z.asked /\ y.out = z.out
      /\ y.state = z.state
      /\ y.events = IF b.phase = "Finalized" THEN z.events ELSE Append(z.events, e)
    <2>1. CASE b.phase = "Finalized"
        BY <1>2, <1>4, <2>1, Zenon
    <2>2. CASE b.phase # "Finalized"
        <3>1. y = [z EXCEPT !.events = Append(@, e)]
            BY <1>2, <2>2, Zenon DEF Report
        <3>2. QED
            BY <1>4, <2>2, <3>1, Zenon DEF IsReceiving, ReceiveFields
    <2>3. QED
        BY <2>1, <2>2, Zenon
<1>6. e = [run |-> c.run, kind |-> "Finalized", accepted |-> dec]
    BY <1>1, <1>3, Zenon
<1>7. \A f \in SessionFields \ {"phase", "decision", "next1"} : y.state[f] = c[f]
    BY <1>1, <1>4, <1>5, Zenon
<1>8. y.out = Append(x.out,
            [records |-> <<Sealed(c.next1, "data", c.key, JoinFinRsp(dec))>>, kek |-> dec])
    BY <1>1, <1>3, <1>4, <1>5, Zenon
<1>9. y.events = IF c.phase = "Finalized" THEN x.events
                 ELSE Append(x.events, [run |-> c.run, kind |-> "Finalized", accepted |-> dec])
    BY <1>1, <1>3, <1>4, <1>5, <1>6, Zenon
<1>10. /\ y.asked = (IF c.decision # None THEN x.asked ELSE x.asked + 1) /\ y.stop = x.stop
       /\ y.state.phase = "Finalized" /\ y.state.decision = dec /\ y.state.next1 = c.next1 + 1
       /\ IsReceiving(y) /\ IsSession(y.state)
    BY <1>1, <1>3, <1>4, <1>5, Zenon
<1>11. QED
    BY <1>7, <1>8, <1>9, <1>10, Zenon DEF y, c, dec

\* A JOIN_FIN.req on an established session.
LEMMA Finalizes ==
    ASSUME NEW s, NEW x, NEW S, NEW L, NEW pub, IsSequence(pub), ReceiveFold(s, x, S, L, pub),
           ~x.stop, Established(x.state), NEW accepts, accepts # None
    PROVE  ReceiveFold(s, FinalizeRequest(x, accepts), S, L, pub)
<1> DEFINE c == x.state
           y == FinalizeRequest(x, accepts)
           d == y.state
           dec == IF c.decision # None THEN c.decision ELSE accepts
           sealed == Sealed(c.next1, "data", c.key, JoinFinRsp(dec))
           t == [records |-> <<sealed>>, kek |-> dec]
           e == [run |-> c.run, kind |-> "Finalized", accepted |-> dec]
           T == S \cup SentIn(x.out)
           L2 == Links(L, c)
           p == pub \o x.events
<1>1. /\ SessionInv(c, T, L2, p) /\ Receives(s, x, S, L, pub) /\ IsReceiving(x)
      /\ x.asked \in {0, 1} /\ IsSequence(x.events) /\ (x.asked = 1 => s.decision = None)
      /\ IsSequence(x.out)
    BY Zenon DEF ReceiveFold, Receives, IsReceiving
<1>2. /\ IsSession(c) /\ Below(T, c.next1) /\ RunSent(T, c.run, L2, Decided(c))
      /\ c.phase \in {"Connected", "Finalized"} /\ (c.decision # None <=> c.phase = "Finalized")
      /\ Kinds(p, c.run) = KindsIn(c.phase) /\ Told(p, c.run) = Decided(c)
      /\ c.key # None /\ c.key[3] = c.run /\ Link(c) \in L2
      /\ (c.finished # None => Opened(c.finished, L2))
    BY <1>1, Zenon DEF SessionInv, Established
<1>3. /\ IsReceiving(y) /\ IsSession(d) /\ y.stop = x.stop
      /\ y.asked = (IF c.decision # None THEN x.asked ELSE x.asked + 1)
      /\ y.out = Append(x.out, t)
      /\ y.events = (IF c.phase = "Finalized" THEN x.events ELSE Append(x.events, e))
      /\ d.phase = "Finalized" /\ d.decision = dec /\ d.next1 = c.next1 + 1
      /\ \A f \in SessionFields \ {"phase", "decision", "next1"} : d[f] = c[f]
    <2>1. IsReceiving(x) /\ IsSession(x.state)
        BY <1>1, <1>2, Zenon
    <2>2. QED
        BY <2>1, FinalizeFields, SMTT(30)
<1>4. /\ t.records = <<sealed>> /\ t.kek = dec /\ sealed.epoch = 1 /\ sealed.seq = c.next1
      /\ sealed.content = "data" /\ sealed.key = c.key /\ Body(sealed.message) = dec
      /\ e.run = c.run /\ e.kind = "Finalized" /\ e.accepted = dec
    BY Zenon DEF Sealed, Record, JoinFinRsp, Message, Body
<1>5. dec # None /\ (c.phase = "Finalized" => dec = c.decision)
    BY <1>2, Zenon
<1> HIDE DEF y, d, c, dec, sealed, t, e
<1>6. /\ d.run = c.run /\ d.route = c.route /\ d.key = c.key /\ d.transcript = c.transcript
      /\ d.finished = c.finished
    BY <1>3, Zenon DEF SessionFields
<1>7. /\ Established(d) /\ Link(d) = Link(c) /\ Links(L, d) = L2 /\ Decided(d) = {dec}
      /\ KindsIn(d.phase) = {"Connected", "Finalized"}
      /\ (Decided(c) # {} => {dec} = Decided(c)) /\ Established(c)
    BY <1>2, <1>3, <1>5, <1>6, Zenon DEF Established, Link, Links, Decided, KindsIn
<1>8. /\ Len(t.records) = 1 /\ t.records[1] = sealed /\ Elements(t.records) = {sealed}
    BY <1>4 DEF Elements
<1> HIDE DEF T, L2, p
<1>9. /\ IsSequence(y.out) /\ S \cup SentIn(y.out) = T \cup {sealed}
      /\ \A i \in 1..Len(y.out) : (i \in 1..Len(x.out) /\ y.out[i] = x.out[i]) \/ y.out[i] = t
    <2> DEFINE q == Append(x.out, t)
    <2>1. /\ IsSequence(q) /\ SentIn(q) = SentIn(x.out) \cup Elements(t.records)
          /\ \A i \in 1..Len(q) : (i \in 1..Len(x.out) /\ q[i] = x.out[i]) \/ q[i] = t
        BY <1>1, SentInAppend, Zenon
    <2>2. y.out = q
        BY <1>3, Zenon
    <2> HIDE DEF q
    <2>3. QED
        BY <1>8, <2>1, <2>2, Zenon DEF T
<1>10. RunSent(T \cup {sealed}, c.run, L2, {dec}) /\ Below(T \cup {sealed}, c.next1 + 1)
    <2>1. RunSent(T, c.run, L2, Decided(c)) /\ Below(T, c.next1) /\ L2 \subseteq L2
        BY <1>2, Zenon
    <2>2. Decided(c) # {} => {dec} = Decided(c)
        BY <1>7, Zenon
    <2>3. sealed.epoch = 1 /\ sealed.seq = c.next1
        BY <1>4, Zenon
    <2>4. sealed.content = "data" /\ sealed.key[3] = c.run /\ {dec} = {Body(sealed.message)}
        BY <1>2, <1>4, Zenon
    <2>5. QED
        BY <2>1, <2>2, <2>3, <2>4, SealedSent, Zenon
<1>11. Transmission(t, d)
    <2>1. Len(t.records) \in Nat \ {0}
        BY <1>8
    <2>2. QED
        BY <1>3, <1>4, <1>8, <2>1 DEF Transmission
<1>12. \A i \in 1..Len(y.out) : Transmission(y.out[i], d)
    <2>1. \A i \in 1..Len(x.out) : Transmission(x.out[i], c)
        BY <1>1, Zenon DEF Receives, c
    <2>2. \A i \in 1..Len(x.out) : Transmission(x.out[i], d)
        BY <1>3, <1>5, <2>1, Zenon DEF Transmission
    <2>3. QED
        BY <1>9, <1>11, <2>2
<1>13. /\ IsSequence(y.events) /\ IsSequence(p) /\ InOrder(pub \o y.events)
       /\ Kinds(pub \o y.events, c.run) = {"Connected", "Finalized"}
       /\ Told(pub \o y.events, c.run) = {dec}
       /\ \A run : run # c.run => Told(pub \o y.events, run) = Told(p, run)
       /\ \A i \in 1..Len(y.events) : y.events[i].run = c.run
    <2>1. InOrder(p) /\ (\A i \in 1..Len(x.events) : x.events[i].run = c.run)
        BY <1>1, Zenon DEF Receives, p, c
    <2>2. IsSequence(p) /\ pub \o Append(x.events, e) = Append(p, e)
        BY <1>1, Concatenation DEF p
    <2>3. CASE c.phase = "Finalized"
        <3>1. y.events = x.events
            BY <1>3, <2>3, Zenon
        <3>2. pub \o y.events = p
            BY <3>1, Zenon DEF p
        <3>3. KindsIn(c.phase) = {"Connected", "Finalized"} /\ Decided(c) = {dec}
            BY <1>5, <2>3, Zenon DEF KindsIn, Decided
        <3>4. QED
            BY <1>1, <1>2, <2>1, <2>2, <3>1, <3>2, <3>3, Zenon
    <2>4. CASE c.phase = "Connected"
        <3>1. y.events = Append(x.events, e)
            BY <1>3, <2>4, Zenon
        <3>2. pub \o y.events = Append(p, e)
            BY <2>2, <3>1, Zenon
        <3>3. KindsIn(c.phase) = {"Connected"} /\ Decided(c) = {}
            BY <2>4, Zenon DEF KindsIn, Decided
        <3>4. Kinds(p, e.run) = Expected(e.kind)
            BY <1>2, <1>4, <3>3 DEF Expected
        <3>5. /\ InOrder(Append(p, e))
              /\ Kinds(Append(p, e), e.run) = Kinds(p, e.run) \cup {e.kind}
              /\ Told(Append(p, e), e.run) =
                    Told(p, e.run) \cup (IF e.kind = "Finalized" THEN {e.accepted} ELSE {})
              /\ \A run : run # e.run => Told(Append(p, e), run) = Told(p, run)
            BY <2>1, <2>2, <3>4, EventAdded, Zenon
        <3>6. /\ IsSequence(y.events)
              /\ \A i \in 1..Len(y.events) : y.events[i].run = c.run
            <4> DEFINE q == Append(x.events, e)
            <4>1. /\ IsSequence(q) /\ Len(x.events) \in Nat /\ Len(q) = Len(x.events) + 1
                  /\ \A i \in 1..Len(x.events) : q[i] = x.events[i]
                  /\ q[Len(x.events) + 1] = e
                BY <1>1, SequenceAppend
            <4>2. y.events = q
                BY <3>1, Zenon
            <4> HIDE DEF q
            <4>3. QED
                BY <1>4, <2>1, <4>1, <4>2
        <3>7. QED
            BY <1>2, <1>4, <2>2, <3>2, <3>3, <3>5, <3>6
    <2>5. QED
        BY <1>2, <2>3, <2>4
<1>14. SessionInv(d, S \cup SentIn(y.out), L2, pub \o y.events)
    <2>1. d.phase # "AwaitingClientFlight"
        BY <1>3, Zenon
    <2>2. QED
        BY <1>2, <1>3, <1>5, <1>6, <1>7, <1>9, <1>10, <1>13, <2>1, Zenon DEF SessionInv
<1>15. /\ c.run = s.run /\ c.route = s.route /\ (x.asked = 0 => c.decision = s.decision)
       /\ (Established(s) => Link(c) = Link(s))
       /\ (\A run : run # s.run => Told(p, run) = Told(pub, run))
       /\ (s.phase = "Finalized" => Decided(c) = Decided(s))
       /\ (x.asked = 1 => c.decision # None)
    BY <1>1, Zenon DEF Receives, c, p
<1>16. /\ y.asked \in {0, 1} /\ (y.asked = 1 => s.decision = None)
       /\ (y.asked = 0 => d.decision = s.decision)
       /\ (s.phase = "Finalized" => Decided(d) = Decided(s))
    <2>1. s.phase = "Finalized" => Decided(s) # {}
        BY Zenon DEF Decided
    <2>2. s.phase = "Finalized" => Decided(d) = Decided(s)
        BY <1>7, <1>15, <2>1, Zenon
    <2>3. CASE c.decision # None
        <3>1. dec = c.decision /\ y.asked = x.asked
            BY <1>3, <2>3, Zenon DEF dec
        <3>2. QED
            BY <1>1, <1>3, <1>15, <2>2, <3>1
    <2>4. CASE c.decision = None
        <3>1. x.asked = 0
            BY <1>1, <1>15, <2>4
        <3>2. y.asked = 1 /\ s.decision = None
            BY <1>3, <1>15, <2>4, <3>1
        <3>3. QED
            BY <2>2, <3>2
    <2>5. QED
        BY <2>3, <2>4, Zenon
<1>17. Receives(s, y, S, L, pub)
    BY <1>3, <1>5, <1>6, <1>7, <1>12, <1>13, <1>14, <1>15, <1>16, Zenon DEF Receives, d
<1>18. QED
    BY <1>3, <1>9, <1>13, <1>16, <1>17 DEF ReceiveFold, IsReceiving, y

\* The rest of what a datagram does stays when the session changes.
LEMMA StateReplaced ==
    ASSUME NEW x, IsReceiving(x), NEW d
    PROVE  LET y == [x EXCEPT !.state = d]
           IN  /\ IsReceiving(y) /\ y.state = d /\ y.out = x.out /\ y.events = x.events
               /\ y.asked = x.asked /\ y.stop = x.stop
BY Zenon DEF IsReceiving, ReceiveFields

\* A plaintext handshake record is neither sealed nor data.
LEMMA PlainRecord ==
    ASSUME NEW r, Plain(r)
    PROVE  r.epoch = 0 /\ r.content # "data"
BY DEF Plain, PlainHandshake, Record

\* What PlainHandshake makes is plaintext.
LEMMA PlainIs ==
    ASSUME NEW seq, NEW m
    PROVE  Plain(PlainHandshake(seq, m))
BY Zenon DEF Plain, PlainHandshake, Record

\* A plaintext flight while the session is not connected.
LEMMA FlightSent ==
    ASSUME NEW s, NEW x, NEW S, NEW L, NEW pub, ReceiveFold(s, x, S, L, pub), ~x.stop,
           ~Established(x.state), NEW d, IsSession(d),
           \A f \in {"run", "route", "decision", "next1", "key"} : d[f] = x.state[f],
           d.phase \in {"AwaitingClientHello", "AwaitingClientFlight"},
           d.phase = "AwaitingClientFlight" =>
                Len(d.flight) = 3 /\ \A i \in 1..3 : Plain(d.flight[i]),
           NEW flight, Len(flight) \in Nat \ {0}, \A i \in 1..Len(flight) : Plain(flight[i])
    PROVE  ReceiveFold(s, Transmit([x EXCEPT !.state = d], flight, FALSE), S, L, pub)
<1> DEFINE w == [x EXCEPT !.state = d]
           t == [records |-> flight, kek |-> FALSE]
           y == Transmit(w, flight, FALSE)
           F == Elements(flight)
<1>1. /\ IsReceiving(x) /\ IsSequence(x.out) /\ Receives(s, x, S, L, pub)
    BY Zenon DEF ReceiveFold, IsReceiving
<1>2. /\ IsReceiving(w) /\ w.state = d /\ w.out = x.out /\ w.events = x.events
      /\ w.asked = x.asked /\ w.stop = x.stop
    BY <1>1, StateReplaced, Zenon
<1> HIDE DEF w
<1>3. /\ IsReceiving(y) /\ y.state = w.state /\ y.out = Append(w.out, t) /\ y.events = w.events
      /\ y.asked = w.asked /\ y.stop = w.stop
    BY <1>2, Zenon DEF Transmit, IsReceiving, ReceiveFields
<1> HIDE DEF y
<1>4. t.records = flight
    BY Zenon
<1> HIDE DEF t
<1>5. \A r \in F : r.epoch = 0 /\ r.content # "data"
    BY PlainRecord, Zenon DEF Elements
<1>6. Transmission(t, d)
    <2>1. \A i \in 1..Len(flight) : flight[i].content # "data"
        BY PlainRecord, Zenon
    <2>2. QED
        BY <1>4, <2>1, Zenon DEF Transmission
<1>7. /\ IsSequence(y.out) /\ SentIn(y.out) = SentIn(x.out) \cup F
      /\ \A i \in 1..Len(y.out) : (i \in 1..Len(x.out) /\ y.out[i] = x.out[i]) \/ y.out[i] = t
    <2> DEFINE q == Append(x.out, t)
    <2>1. /\ IsSequence(q) /\ SentIn(q) = SentIn(x.out) \cup Elements(t.records)
          /\ \A i \in 1..Len(q) : (i \in 1..Len(x.out) /\ q[i] = x.out[i]) \/ q[i] = t
        BY <1>1, SentInAppend, Zenon
    <2>2. y.out = q
        BY <1>2, <1>3, Zenon
    <2> HIDE DEF q
    <2>3. QED
        BY <1>4, <2>1, <2>2, Zenon
<1> HIDE DEF F
<1>8. \A i \in 1..Len(y.out) : \/ i \in 1..Len(x.out) /\ y.out[i] = x.out[i]
                               \/ Transmission(y.out[i], y.state)
    BY <1>2, <1>3, <1>6, <1>7
<1>9. /\ y.state.run = x.state.run /\ y.state.route = x.state.route
      /\ y.state.decision = x.state.decision /\ y.state.next1 = x.state.next1
      /\ y.state.phase \in {"AwaitingClientHello", "AwaitingClientFlight"}
      /\ (y.state.key # None => y.state.key[3] = y.state.run)
      /\ (y.state.phase = "AwaitingClientFlight" =>
                Len(y.state.flight) = 3 /\ \A i \in 1..3 : Plain(y.state.flight[i]))
    <2>1. x.state.key # None => x.state.key[3] = x.state.run
        BY <1>1, Zenon DEF Receives, SessionInv
    <2>2. QED
        BY <1>2, <1>3, <2>1, Zenon
<1>10. /\ ~y.stop /\ y.events = x.events /\ y.asked = x.asked /\ IsSession(y.state)
    BY <1>2, <1>3, Zenon
<1>11. ReceiveFold(s, y, S, L, pub)
    BY <1>3, <1>5, <1>7, <1>8, <1>9, <1>10, HandshakeGoesOn, Zenon
<1>12. QED
    BY <1>11, Zenon DEF y, w

\* A ClientHello without the right cookie, or the one that is accepted.
LEMMA FirstHelloHandled ==
    ASSUME NEW s, NEW x, NEW S, NEW L, NEW pub, ReceiveFold(s, x, S, L, pub), ~x.stop,
           x.state.phase = "AwaitingClientHello", NEW m, NEW seq
    PROVE  ReceiveFold(s, FirstHello(x, m, seq), S, L, pub)
<1> DEFINE c == x.state
           client == Body(m).random
           messages == <<ServerHello(m.seq, c.run), ServerKeyExchange(m.seq + 1, c.run, client),
                         ServerHelloDone(m.seq + 2)>>
           flight == [i \in 1..3 |-> PlainHandshake(seq + i - 1, messages[i])]
           verify == <<PlainHandshake(seq, HelloVerifyRequest(m.seq, Cookie(c.run, client)))>>
           d == [c EXCEPT !.phase = "AwaitingClientFlight", !.hello = m, !.next0 = seq + 3,
                          !.flight = flight, !.transcript = <<m>> \o messages]
<1>1. IsReceiving(x) /\ IsSession(c) /\ ~Established(c)
    BY Zenon DEF ReceiveFold, Receives, SessionInv, IsReceiving, Established
<1>2. CASE Body(m).cookie # Cookie(c.run, client)
    <2>1. FirstHello(x, m, seq) = Transmit(x, verify, FALSE)
        BY <1>2, Zenon DEF FirstHello
    <2>2. [x EXCEPT !.state = c] = x
        BY <1>1, Zenon DEF IsReceiving, ReceiveFields
    <2>3. Len(verify) \in Nat \ {0} /\ \A i \in 1..Len(verify) : Plain(verify[i])
        BY PlainIs
    <2> HIDE DEF verify
    <2>4. ReceiveFold(s, Transmit([x EXCEPT !.state = c], verify, FALSE), S, L, pub)
        BY <1>1, <2>3, FlightSent, Zenon
    <2>5. QED
        BY <2>1, <2>2, <2>4, Zenon
<1>3. CASE Body(m).cookie = Cookie(c.run, client)
    <2>1. FirstHello(x, m, seq) = Transmit([x EXCEPT !.state = d], flight, FALSE)
        BY <1>3, Zenon DEF FirstHello
    <2> HIDE DEF messages
    <2>2. Len(flight) = 3 /\ \A i \in 1..3 : Plain(flight[i])
        BY PlainIs
    <2> HIDE DEF flight
    <2>3. /\ IsSession(d) /\ d.phase = "AwaitingClientFlight" /\ d.flight = flight
          /\ \A f \in SessionFields \ {"phase", "hello", "next0", "flight", "transcript"} :
                d[f] = c[f]
        BY <1>1, Zenon DEF IsSession, SessionFields
    <2> HIDE DEF d
    <2>4. \A f \in {"run", "route", "decision", "next1", "key"} : d[f] = x.state[f]
        BY <2>3, Zenon DEF SessionFields
    <2>5. Len(flight) \in Nat \ {0} /\ \A i \in 1..Len(flight) : Plain(flight[i])
        BY <2>2
    <2>6. Len(d.flight) = 3 /\ \A i \in 1..3 : Plain(d.flight[i])
        BY <2>2, <2>3, Zenon
    <2>7. ReceiveFold(s, Transmit([x EXCEPT !.state = d], flight, FALSE), S, L, pub)
        BY <1>1, <2>3, <2>4, <2>5, <2>6, FlightSent, Zenon
    <2>8. QED
        BY <2>1, <2>7, Zenon
<1>4. QED
    BY <1>2, <1>3, Zenon

\* A ClientHello of a session that has answered one.
LEMMA RepeatedHelloHandled ==
    ASSUME NEW s, NEW x, NEW S, NEW L, NEW pub, ReceiveFold(s, x, S, L, pub), ~x.stop,
           x.state.phase = "AwaitingClientFlight", NEW m
    PROVE  ReceiveFold(s, RepeatedHello(x, m), S, L, pub)
<1> DEFINE c == x.state
           flight == Renumber(c.flight, c.next0)
           d == [c EXCEPT !.flight = flight, !.flightRetries = @ + 1,
                          !.next0 = @ + EpochZeroCount(flight)]
<1>1. /\ IsSession(c) /\ ~Established(c)
      /\ Len(c.flight) = 3 /\ \A i \in 1..3 : Plain(c.flight[i])
    BY Zenon DEF ReceiveFold, Receives, SessionInv, Established
<1>2. CASE ~(m = c.hello /\ c.flightRetries < MaxDuplicateFlights)
    BY <1>2, Zenon DEF RepeatedHello
<1>3. CASE m = c.hello /\ c.flightRetries < MaxDuplicateFlights
    <2>1. RepeatedHello(x, m) = Transmit([x EXCEPT !.state = d], flight, FALSE)
        BY <1>3, Zenon DEF RepeatedHello
    <2>2. Len(flight) = 3 /\ \A i \in 1..3 : Plain(flight[i])
        <3>1. flight = [i \in 1..3 |->
                IF c.flight[i].epoch = 0
                THEN [c.flight[i] EXCEPT !.seq = c.next0 + PlaintextIn(c.flight, i - 1)]
                ELSE c.flight[i]]
            BY <1>1, Zenon DEF Renumber
        <3>2. ASSUME NEW r, Plain(r), NEW k PROVE Plain([r EXCEPT !.seq = k])
            BY <3>2 DEF Plain, PlainHandshake, Record
        <3>3. ASSUME NEW i \in 1..3 PROVE Plain(flight[i])
            <4>1. Plain(c.flight[i])
                BY <1>1, Zenon
            <4>2. flight[i] = IF c.flight[i].epoch = 0
                    THEN [c.flight[i] EXCEPT !.seq = c.next0 + PlaintextIn(c.flight, i - 1)]
                    ELSE c.flight[i]
                BY <3>1, Zenon
            <4>3. QED
                BY <3>2, <4>1, <4>2
        <3>4. QED
            BY <3>1, <3>3
    <2> HIDE DEF flight
    <2>3. /\ IsSession(d) /\ d.phase = "AwaitingClientFlight" /\ d.flight = flight
          /\ \A f \in SessionFields \ {"flight", "flightRetries", "next0"} : d[f] = c[f]
        BY <1>1, Zenon DEF IsSession, SessionFields
    <2> HIDE DEF d
    <2>4. \A f \in {"run", "route", "decision", "next1", "key"} : d[f] = x.state[f]
        BY <2>3, Zenon DEF SessionFields
    <2>5. Len(flight) \in Nat \ {0} /\ \A i \in 1..Len(flight) : Plain(flight[i])
        BY <2>2
    <2>6. Len(d.flight) = 3 /\ \A i \in 1..3 : Plain(d.flight[i])
        BY <2>2, <2>3, Zenon
    <2>7. ReceiveFold(s, Transmit([x EXCEPT !.state = d], flight, FALSE), S, L, pub)
        BY <1>1, <2>3, <2>4, <2>5, <2>6, FlightSent, Zenon
    <2>8. QED
        BY <2>1, <2>7, Zenon
<1>4. QED
    BY <1>2, <1>3, Zenon

\* A ClientKeyExchange gives the session its key.
LEMMA KeyExchangeHandled ==
    ASSUME NEW s, NEW x, NEW S, NEW L, NEW pub, ReceiveFold(s, x, S, L, pub), ~x.stop,
           x.state.phase = "AwaitingClientFlight", NEW m
    PROVE  ReceiveFold(s, KeyExchange(x, m), S, L, pub)
<1> DEFINE c == x.state
           client == Body(c.hello).random
           key == KeyMaterial(c.secret, client, c.run)
           d == [c EXCEPT !.cke = m, !.transcript = Append(@, m), !.key = key]
           y == [x EXCEPT !.state = d]
<1>1. /\ IsReceiving(x) /\ IsSequence(x.out) /\ IsSession(c) /\ ~Established(c)
      /\ Len(c.flight) = 3 /\ (\A i \in 1..3 : Plain(c.flight[i]))
      /\ \A i \in 1..Len(x.out) : Transmission(x.out[i], c)
    BY Zenon DEF ReceiveFold, Receives, SessionInv, IsReceiving, Established
<1>2. CASE m = c.cke
    BY <1>2, Zenon DEF KeyExchange
<1>3. CASE m # c.cke /\ ~Proves(m, client, c.run)
    <2>1. KeyExchange(x, m) = SessionFails(x)
        BY <1>3, Zenon DEF KeyExchange
    <2>2. QED
        BY <2>1, Fails, Zenon
<1>4. CASE m # c.cke /\ Proves(m, client, c.run)
    <2>1. KeyExchange(x, m) = y
        BY <1>4, Zenon DEF KeyExchange
    <2>2. key[3] = c.run
        BY Zenon DEF KeyMaterial
    <2> HIDE DEF key
    <2>3. /\ IsSession(d) /\ d.key = key
          /\ \A f \in SessionFields \ {"cke", "transcript", "key"} : d[f] = c[f]
        BY <1>1, Zenon DEF IsSession, SessionFields
    <2> HIDE DEF d
    <2>4. /\ IsReceiving(y) /\ y.state = d /\ y.out = x.out /\ y.events = x.events
          /\ y.asked = x.asked /\ y.stop = x.stop
        BY <1>1, StateReplaced, Zenon
    <2> HIDE DEF y
    <2>5. /\ d.run = c.run /\ d.route = c.route /\ d.decision = c.decision
          /\ d.next1 = c.next1 /\ d.phase = c.phase /\ d.flight = c.flight
        BY <2>3, Zenon DEF SessionFields
    <2> DEFINE F == {r \in SentIn(x.out) : FALSE}
    <2>6. (\A r \in F : r.epoch = 0 /\ r.content # "data") /\ SentIn(y.out) = SentIn(x.out) \cup F
        BY <2>4, Zenon
    <2> HIDE DEF F
    <2>7. \A i \in 1..Len(y.out) : \/ i \in 1..Len(x.out) /\ y.out[i] = x.out[i]
                                   \/ Transmission(y.out[i], y.state)
        BY <2>4, Zenon
    <2>8. /\ y.state.run = x.state.run /\ y.state.route = x.state.route
          /\ y.state.decision = x.state.decision /\ y.state.next1 = x.state.next1
          /\ y.state.phase \in {"AwaitingClientHello", "AwaitingClientFlight"}
          /\ (y.state.key # None => y.state.key[3] = y.state.run)
          /\ (y.state.phase = "AwaitingClientFlight" =>
                Len(y.state.flight) = 3 /\ \A i \in 1..3 : Plain(y.state.flight[i]))
        BY <1>1, <2>2, <2>3, <2>4, <2>5
    <2>9. ~y.stop /\ IsSession(y.state) /\ IsSequence(y.out)
        BY <1>1, <2>3, <2>4
    <2>10. ReceiveFold(s, y, S, L, pub)
        BY <1>1, <2>4, <2>6, <2>7, <2>8, <2>9, HandshakeGoesOn, Zenon
    <2>11. QED
        BY <2>1, <2>10, Zenon
<1>5. QED
    BY <1>2, <1>3, <1>4, Zenon

\* A plaintext handshake record, whatever it is.
LEMMA PlaintextHandled ==
    ASSUME NEW s, NEW x, NEW S, NEW L, NEW pub, ReceiveFold(s, x, S, L, pub), ~x.stop,
           NEW m, NEW seq
    PROVE  ReceiveFold(s, PlaintextHandshake(x, m, seq), S, L, pub)
<1> DEFINE y == PlaintextHandshake(x, m, seq)
<1>1. CASE m.type = "ClientHello" /\ x.state.phase = "AwaitingClientHello"
    <2>1. y = FirstHello(x, m, seq)
        BY <1>1, Zenon DEF PlaintextHandshake
    <2>2. QED
        BY <1>1, <2>1, FirstHelloHandled
<1>2. CASE m.type = "ClientHello" /\ x.state.phase = "AwaitingClientFlight"
    <2>1. y = RepeatedHello(x, m)
        BY <1>2, Zenon DEF PlaintextHandshake
    <2>2. QED
        BY <1>2, <2>1, RepeatedHelloHandled
<1>3. CASE m.type = "ClientKeyExchange" /\ x.state.phase = "AwaitingClientFlight"
    <2>1. y = KeyExchange(x, m)
        BY <1>3, Zenon DEF PlaintextHandshake
    <2>2. QED
        BY <1>3, <2>1, KeyExchangeHandled
<1>4. CASE /\ ~(m.type = "ClientHello" /\ x.state.phase = "AwaitingClientHello")
           /\ ~(m.type = "ClientHello" /\ x.state.phase = "AwaitingClientFlight")
           /\ ~(m.type = "ClientKeyExchange" /\ x.state.phase = "AwaitingClientFlight")
    <2>1. y = SessionFails(x)
        BY <1>4, Zenon DEF PlaintextHandshake
    <2>2. QED
        BY <2>1, Fails, Zenon
<1>5. QED
    BY <1>1, <1>2, <1>3, <1>4

\* A record of application data: JOIN_FIN.req, or something else.
LEMMA ApplicationDataHandled ==
    ASSUME NEW s, NEW x, NEW S, NEW L, NEW pub, IsSequence(pub), ReceiveFold(s, x, S, L, pub),
           ~x.stop, NEW r, NEW accepts, accepts # None
    PROVE  ReceiveFold(s, ApplicationData(x, r, accepts), S, L, pub)
<1> DEFINE c == x.state
           d == [c EXCEPT !.seen = @ \cup {r.seq}, !.finished = None]
           opened == [x EXCEPT !.state = d]
           y == ApplicationData(x, r, accepts)
<1>1. IsReceiving(x) /\ IsSession(c)
    BY Zenon DEF ReceiveFold, Receives, SessionInv, IsReceiving
<1>2. CASE ~Established(c) \/ ~CanOpen(c, r)
    BY <1>2, Zenon DEF ApplicationData
<1>3. CASE Established(c) /\ CanOpen(c, r)
    <2>1. y = CASE r.message.type = "JOIN_FIN.req" -> FinalizeRequest(opened, accepts)
                [] r.message.type = "other" -> opened
                [] OTHER -> SessionFails(opened)
        BY <1>3, Zenon DEF ApplicationData
    <2>2. /\ IsSession(d) /\ d.finished = None
          /\ \A f \in SessionFields \ {"seen", "finished"} : d[f] = c[f]
        BY <1>1, Zenon DEF IsSession, SessionFields
    <2> HIDE DEF d, y
    <2>3. /\ IsReceiving(opened) /\ opened.state = d /\ opened.out = x.out
          /\ opened.events = x.events /\ opened.asked = x.asked /\ opened.stop = x.stop
        BY <1>1, StateReplaced, Zenon
    <2> HIDE DEF opened
    <2>4. \A f \in {"run", "route", "phase", "decision", "next1", "key", "transcript", "flight"} :
                opened.state[f] = x.state[f]
        BY <2>2, <2>3, Zenon DEF SessionFields
    <2>5. opened.state.finished \in {x.state.finished, None} /\ IsSession(opened.state)
          /\ ~opened.stop
        BY <2>2, <2>3, Zenon
    <2>6. ReceiveFold(s, opened, S, L, pub)
        BY <2>3, <2>4, <2>5, Quietly
    <2>7. Established(opened.state)
        BY <1>3, <2>4, Zenon DEF Established
    <2>8. CASE r.message.type = "JOIN_FIN.req"
        <3>1. y = FinalizeRequest(opened, accepts)
            BY <2>1, <2>8, Zenon
        <3>2. ReceiveFold(s, FinalizeRequest(opened, accepts), S, L, pub)
            BY <2>5, <2>6, <2>7, Finalizes
        <3>3. QED
            BY <3>1, <3>2, Zenon DEF y
    <2>9. CASE r.message.type = "other"
        <3>1. y = opened
            BY <2>1, <2>9, Zenon
        <3>2. QED
            BY <2>6, <3>1, Zenon DEF y
    <2>10. CASE r.message.type # "JOIN_FIN.req" /\ r.message.type # "other"
        <3>1. y = SessionFails(opened)
            BY <2>1, <2>10, Zenon
        <3>2. ReceiveFold(s, SessionFails(opened), S, L, pub)
            BY <2>6, Fails, Zenon
        <3>3. QED
            BY <3>1, <3>2, Zenon DEF y
    <2>11. QED
        BY <2>8, <2>9, <2>10, Zenon
<1>4. QED
    BY <1>2, <1>3, Zenon

\* A sealed handshake record: the joiner's Finished, or none.
LEMMA EncryptedHandled ==
    ASSUME NEW s, NEW x, NEW S, NEW L, NEW pub, IsSequence(pub), ReceiveFold(s, x, S, L, pub),
           ~x.stop, NEW r
    PROVE  ReceiveFold(s, EncryptedHandshake(x, r), S, L, pub)
<1> DEFINE c == x.state
           before == Append(c.transcript, r.message)
           finished == Finished(c.hello.seq + 3, "server", c.key, before)
           skips == c.phase # "AwaitingClientFlight" \/ ~c.ccs \/ c.key = None \/ r.seq \in c.seen
           wrong == ~CanOpen(c, r) \/ Body(r.message) # <<"client", c.key, c.transcript>>
           z == Report(FinishedFlight([x EXCEPT !.state =
                    [c EXCEPT !.phase = "Connected", !.seen = @ \cup {r.seq},
                              !.finished = finished, !.transcript = Append(before, finished)]]),
                       [run |-> c.run, kind |-> "Connected", accepted |-> FALSE])
           y == EncryptedHandshake(x, r)
<1>1. y = IF skips THEN x ELSE IF wrong THEN SessionFails(x) ELSE z
    BY Zenon DEF EncryptedHandshake
<1>2. CASE skips
    BY <1>1, <1>2, Zenon
<1>3. CASE ~skips /\ wrong
    <2>1. y = SessionFails(x)
        BY <1>1, <1>3, Zenon
    <2>2. QED
        BY <2>1, Fails, Zenon
<1>4. CASE ~skips /\ ~wrong
    <2>1. y = z
        BY <1>1, <1>4, Zenon
    <2>2. ReceiveFold(s, z, S, L, pub)
        BY <1>4, Connects, Zenon
    <2>3. QED
        BY <2>1, <2>2, Zenon
<1>5. QED
    BY <1>2, <1>3, <1>4, Zenon

\* Each record of a datagram.
LEMMA SessionRecordHandled ==
    ASSUME NEW s, NEW x, NEW S, NEW L, NEW pub, IsSequence(pub), ReceiveFold(s, x, S, L, pub),
           NEW r, NEW was, NEW accepts, accepts # None
    PROVE  ReceiveFold(s, Unless(x, SessionRecord(x, r, was, accepts)), S, L, pub)
<1> DEFINE y == SessionRecord(x, r, was, accepts)
           c1 == r.epoch = 0 /\ r.content = "handshake" /\ ~was
           c2 == r.epoch = 0 /\ r.content = "ccs"
           c3 == r.epoch = 1 /\ r.content = "handshake"
           c4 == r.epoch = 1 /\ r.content = "data"
           c5 == r.epoch = 0 /\ r.content = "alert" /\ ~Established(x.state)
           c6 == r.epoch = 1 /\ r.content = "alert" /\ CanOpen(x.state, r)
           d == [x.state EXCEPT !.ccs = TRUE]
           w == [x EXCEPT !.state = d]
<1>1. SUFFICES ASSUME ~x.stop PROVE ReceiveFold(s, y, S, L, pub)
    BY Zenon DEF Unless
<1>2. CASE c1
    <2>1. y = PlaintextHandshake(x, r.message, r.seq)
        BY <1>2 DEF SessionRecord
    <2>2. QED
        BY <1>1, <2>1, PlaintextHandled, Zenon
<1>3. CASE c2
    <2>1. y = w
        BY <1>3, Zenon DEF SessionRecord
    <2>2. IsReceiving(x) /\ IsSession(x.state)
        BY <1>1, Zenon DEF ReceiveFold, Receives, SessionInv, IsReceiving
    <2>3. IsSession(d) /\ \A f \in SessionFields \ {"ccs"} : d[f] = x.state[f]
        BY <2>2, Zenon DEF IsSession, SessionFields
    <2> HIDE DEF d
    <2>4. /\ IsReceiving(w) /\ w.state = d /\ w.out = x.out /\ w.events = x.events
          /\ w.asked = x.asked /\ w.stop = x.stop
        BY <2>2, StateReplaced, Zenon
    <2> HIDE DEF w
    <2>5. /\ IsSession(w.state) /\ w.state.finished \in {x.state.finished, None} /\ ~w.stop
          /\ \A f \in {"run", "route", "phase", "decision", "next1", "key", "transcript",
                       "flight"} : w.state[f] = x.state[f]
        BY <1>1, <2>3, <2>4, Zenon DEF SessionFields
    <2>6. ReceiveFold(s, w, S, L, pub)
        BY <1>1, <2>4, <2>5, Quietly
    <2>7. QED
        BY <2>1, <2>6, Zenon
<1>4. CASE c3
    <2>1. y = EncryptedHandshake(x, r)
        BY <1>4 DEF SessionRecord
    <2>2. QED
        BY <1>1, <2>1, EncryptedHandled, Zenon
<1>5. CASE c4
    <2>1. y = ApplicationData(x, r, accepts)
        BY <1>5, Zenon DEF SessionRecord
    <2>2. QED
        BY <1>1, <2>1, ApplicationDataHandled, Zenon
<1>6. CASE c5 \/ c6
    <2>1. y = SessionFails(x)
        BY <1>6, Zenon DEF SessionRecord
    <2>2. QED
        BY <2>1, Fails, Zenon
<1>7. CASE ~c1 /\ ~c2 /\ ~c3 /\ ~c4 /\ ~c5 /\ ~c6
    <2>1. y = x
        BY <1>7, Zenon DEF SessionRecord
    <2>2. QED
        BY <2>1, Zenon
<1>8. QED
    BY <1>2, <1>3, <1>4, <1>5, <1>6, <1>7

-----------------------------------------------------------------------------
(* A relayed datagram, record by record *)

\* What a session does before it looks at the records of a datagram.
Opening(s, records) ==
    IF /\ Established(s) /\ s.finished # None
       /\ IsClientFinishedFlight(records)
       /\ s.finishedRetries < MaxDuplicateFlights
    THEN FinishedFlight([Receiving(s) EXCEPT !.state = [s EXCEPT !.finishedRetries = @ + 1]])
    ELSE Receiving(s)

IsSessionTrace(s, records, accepts, n, after) ==
    after = [k \in 0..n |->
                IF k = 0 THEN Opening(s, records)
                ELSE Unless(after[k - 1],
                            SessionRecord(after[k - 1], records[k], Established(s), accepts))]

\* The states after each record of a datagram.
LEMMA SessionTraceExists ==
    ASSUME NEW s, NEW records, NEW accepts, NEW n \in Nat
    PROVE  \E after : IsSessionTrace(s, records, accepts, n, after)
<1> DEFINE S == {k \in Nat : \E f : IsSessionTrace(s, records, accepts, k, f)}
           next(x, k) == Unless(x, SessionRecord(x, records[k], Established(s), accepts))
<1>1. 0 \in S
    <2>1. IsSessionTrace(s, records, accepts, 0, [k \in 0..0 |-> Opening(s, records)])
        BY DEF IsSessionTrace
    <2>2. QED
        BY <2>1, Zenon
<1>2. ASSUME NEW k \in Nat, k \in S PROVE k + 1 \in S
    <2>1. PICK f : IsSessionTrace(s, records, accepts, k, f)
        BY <1>2, Zenon
    <2>2. f = [j \in 0..k |-> IF j = 0 THEN Opening(s, records) ELSE next(f[j - 1], j)]
        BY <2>1, Zenon DEF IsSessionTrace
    <2> HIDE DEF next
    <2> DEFINE g == [j \in 0..(k + 1) |-> IF j <= k THEN f[j] ELSE next(f[k], k + 1)]
    <2>3. ASSUME NEW j \in 0..(k + 1)
          PROVE  g[j] = IF j = 0 THEN Opening(s, records) ELSE next(g[j - 1], j)
        <3>1. CASE j = 0
            BY <2>2, <3>1
        <3>2. CASE j # 0 /\ j <= k
            BY <2>2, <3>2
        <3>3. CASE j = k + 1
            BY <3>3
        <3>4. QED
            BY <3>1, <3>2, <3>3
    <2>4. IsSessionTrace(s, records, accepts, k + 1, g)
        <3>1. g = [j \in 0..(k + 1) |-> g[j]]
            BY Zenon
        <3> HIDE DEF g
        <3>2. QED
            BY <2>3, <3>1, Zenon DEF IsSessionTrace, next
    <2>5. QED
        BY <2>4
<1>3. Nat \subseteq S
    <2> HIDE DEF S
    <2>1. QED
        BY <1>1, <1>2, Induction
<1>4. QED
    BY <1>3, Zenon

\* Before the first record nothing has been done.
LEMMA NothingReceived ==
    ASSUME NEW s, NEW S, NEW L, NEW pub, IsSequence(pub), InOrder(pub), SessionInv(s, S, L, pub)
    PROVE  /\ ReceiveFold(s, Receiving(s), S, L, pub)
           /\ LET x == Receiving(s) IN x.state = s /\ x.stop = FALSE
<1> DEFINE x == Receiving(s)
<1>1. /\ IsReceiving(x) /\ x.state = s /\ x.out = <<>> /\ x.events = <<>> /\ x.asked = 0
      /\ x.stop = FALSE
    BY Zenon DEF Receiving, IsReceiving, ReceiveFields
<1> HIDE DEF x
<1>2. IsSequence(x.out) /\ IsSequence(x.events) /\ Len(x.out) = 0 /\ Len(x.events) = 0
    BY <1>1, NothingSent, Zenon
<1>3. SentIn(x.out) = {}
    BY <1>2 DEF SentIn
<1>4. pub \o x.events = pub
    BY <1>1, <1>2, Concatenation, Zenon
<1>5. Links(L, s) = L
    BY Zenon DEF Links, SessionInv
<1>6. S \cup SentIn(x.out) = S
    BY <1>3, Zenon
<1>7. (\A i \in 1..Len(x.out) : Transmission(x.out[i], x.state))
      /\ (\A i \in 1..Len(x.events) : x.events[i].run = s.run)
    BY <1>2
<1>8. x.asked # 1
    BY <1>1
<1>9. SessionInv(x.state, S \cup SentIn(x.out), Links(L, x.state), pub \o x.events)
    BY <1>1, <1>4, <1>5, <1>6, Zenon
<1>10. Receives(s, x, S, L, pub)
    BY <1>1, <1>4, <1>7, <1>8, <1>9, Zenon DEF Receives
<1>11. QED
    BY <1>1, <1>2, <1>8, <1>10 DEF ReceiveFold, IsReceiving, x

\* A repeated Finished is answered before the records are looked at.
LEMMA OpeningHandled ==
    ASSUME NEW s, NEW S, NEW L, NEW pub, IsSequence(pub), InOrder(pub), SessionInv(s, S, L, pub),
           NEW records
    PROVE  ReceiveFold(s, Opening(s, records), S, L, pub)
<1> DEFINE x == Receiving(s)
           d == [s EXCEPT !.finishedRetries = @ + 1]
           w == [x EXCEPT !.state = d]
<1>1. ReceiveFold(s, x, S, L, pub) /\ x.state = s /\ ~x.stop /\ IsReceiving(x) /\ IsSession(x.state)
    <2>1. ReceiveFold(s, x, S, L, pub) /\ x.state = s /\ x.stop = FALSE
        BY NothingReceived, Zenon
    <2> HIDE DEF x
    <2>2. QED
        BY <2>1, Zenon DEF ReceiveFold, IsReceiving, SessionInv
<1>2. \/ Opening(s, records) = x
      \/ Established(s) /\ s.finished # None /\ Opening(s, records) = FinishedFlight(w)
    BY Zenon DEF Opening
<1> HIDE DEF x
<1>3. CASE Opening(s, records) = x
    BY <1>1, <1>3, Zenon
<1>4. CASE Established(s) /\ s.finished # None /\ Opening(s, records) = FinishedFlight(w)
    <2>1. IsSession(d) /\ \A f \in SessionFields \ {"finishedRetries"} : d[f] = x.state[f]
        BY <1>1, Zenon DEF IsSession, SessionFields
    <2> HIDE DEF d
    <2>2. /\ IsReceiving(w) /\ w.state = d /\ w.out = x.out /\ w.events = x.events
          /\ w.asked = x.asked /\ w.stop = x.stop
        BY <1>1, StateReplaced, Zenon
    <2> HIDE DEF w
    <2>3. /\ IsSession(w.state) /\ w.state.finished \in {x.state.finished, None} /\ ~w.stop
          /\ (\A f \in {"run", "route", "phase", "decision", "next1", "key", "transcript",
                        "flight"} : w.state[f] = x.state[f])
          /\ w.state.finished = x.state.finished
        BY <1>1, <2>1, <2>2 DEF SessionFields
    <2>4. ReceiveFold(s, w, S, L, pub)
        BY <1>1, <2>2, <2>3, Quietly
    <2>5. Established(w.state) /\ w.state.finished # None
        BY <1>1, <1>4, <2>3, Zenon DEF Established
    <2>6. ReceiveFold(s, FinishedFlight(w), S, L, pub)
        BY <2>3, <2>4, <2>5, FinishedAgain
    <2>7. QED
        BY <1>4, <2>6, Zenon
<1>5. QED
    BY <1>2, <1>3, <1>4, Zenon

\* A relayed datagram is handled record by record.
LEMMA SessionReceives ==
    ASSUME NEW s, NEW S, NEW L, NEW pub, IsSequence(pub), InOrder(pub), SessionInv(s, S, L, pub),
           NEW records, Len(records) \in Nat, NEW accepts, accepts # None
    PROVE  ReceiveFold(s, ReceiveRecords(s, records, accepts), S, L, pub)
<1> DEFINE after[n \in 0..Len(records)] ==
               IF n = 0 THEN Opening(s, records)
               ELSE Unless(after[n - 1],
                           SessionRecord(after[n - 1], records[n], Established(s), accepts))
<1>1. IsSessionTrace(s, records, accepts, Len(records), after)
    <2>1. \E f : IsSessionTrace(s, records, accepts, Len(records), f)
        BY SessionTraceExists, Zenon
    <2>2. QED
        BY <2>1, Zenon DEF IsSessionTrace
<1>2. ReceiveRecords(s, records, accepts) = after[Len(records)]
    BY Zenon DEF ReceiveRecords, Opening
<1> HIDE DEF after
<1>3. after[0] = Opening(s, records)
    BY <1>1 DEF IsSessionTrace
<1>4. ASSUME NEW n \in Nat, n < Len(records)
      PROVE  after[n + 1] =
                Unless(after[n], SessionRecord(after[n], records[n + 1], Established(s), accepts))
    <2>1. n + 1 \in 0..Len(records) /\ n + 1 # 0 /\ (n + 1) - 1 = n
        BY <1>4
    <2>2. QED
        BY <1>1, <2>1, Zenon DEF IsSessionTrace
<1> DEFINE I == {n \in Nat : n <= Len(records) => ReceiveFold(s, after[n], S, L, pub)}
<1>5. 0 \in I
    BY <1>3, OpeningHandled, Zenon
<1>6. ASSUME NEW n \in Nat, n \in I PROVE n + 1 \in I
    <2> SUFFICES ASSUME n + 1 <= Len(records) PROVE ReceiveFold(s, after[n + 1], S, L, pub)
        OBVIOUS
    <2>1. n <= Len(records) /\ n < Len(records)
        OBVIOUS
    <2>2. ReceiveFold(s, after[n], S, L, pub)
        BY <1>6, <2>1, Zenon
    <2>3. ReceiveFold(s, Unless(after[n],
                SessionRecord(after[n], records[n + 1], Established(s), accepts)), S, L, pub)
        BY <2>2, SessionRecordHandled, Zenon
    <2>4. after[n + 1] =
                Unless(after[n], SessionRecord(after[n], records[n + 1], Established(s), accepts))
        BY <1>4, <2>1, Zenon
    <2>5. QED
        BY <2>3, <2>4, Zenon
<1>7. Nat \subseteq I
    <2> HIDE DEF I
    <2>1. QED
        BY <1>5, <1>6, Induction, Zenon
<1>8. QED
    BY <1>2, <1>7

\* A session that was just created.
LEMMA SessionCreated ==
    ASSUME NEW run, NEW secret, NEW route, NEW L, NEW pub, IsSequence(pub),
           \A i \in 1..Len(pub) : pub[i].run # run
    PROVE  LET s == NewSession(run, secret, route)
           IN  /\ SessionInv(s, {}, L, pub) /\ s.run = run /\ s.route = route
               /\ ~Established(s) /\ s.decision = None
<1> DEFINE s == NewSession(run, secret, route)
<1>1. /\ IsSession(s) /\ s.phase = "AwaitingClientHello" /\ s.decision = None /\ s.run = run
      /\ s.route = route /\ s.next1 = 0 /\ s.key = None
    BY Zenon DEF NewSession, IsSession, SessionFields
<1> HIDE DEF s
<1>2. Kinds(pub, run) = {} /\ Told(pub, run) = {}
    BY Zenon DEF Kinds, Told
<1>3. KindsIn(s.phase) = {} /\ Decided(s) = {} /\ ~Established(s)
    BY <1>1, Zenon DEF KindsIn, Decided, Established
<1>4. Below({}, 0) /\ RunSent({}, run, L, {})
    BY Zenon DEF Below, RunSent
<1>5. SessionInv(s, {}, L, pub)
    BY <1>1, <1>2, <1>3, <1>4, Zenon DEF SessionInv
<1>6. QED
    BY <1>1, <1>3, <1>5, Zenon DEF s
=============================================================================
