-------------------------- MODULE JoinerRelayProofs --------------------------
(***************************************************************************)
(* Joining, whatever the relay path, the application and the joiner do.    *)
(* The invariant follows each session through its records: what it has     *)
(* sent so far, what the application was told of it and how often its      *)
(* handler was asked.                                                      *)
(***************************************************************************)
EXTENDS JoinerSessionProofs

-----------------------------------------------------------------------------
(* The joiner *)

JoinerInv(c, R, L, pub, v) ==
    /\ ClientInv(c, R)
    /\ c.phase = "ServerFinished" => c.cke.type = "ClientKeyExchange"
    /\ c.phase = "Done" => Link(c) \in L
    /\ v # None => /\ c.phase \in {"Done", "Failed"}
                   /\ Link(c) \in L
                   /\ Told(pub, c.key[3]) = {v}

\* What is decided stays decided.
Persists(pub, pub2) == \A run, v : Told(pub, run) = {v} => Told(pub2, run) = {v}

\* What sessions do leaves what the joiner knows true.
LEMMA JoinerStands ==
    ASSUME NEW c, NEW R, NEW L, NEW pub, NEW v, JoinerInv(c, R, L, pub, v),
           NEW L2, L \subseteq L2, NEW pub2, Persists(pub, pub2)
    PROVE  JoinerInv(c, R, L2, pub2, v)
BY Zenon DEF JoinerInv, Persists

\* The joiner goes on without being told anything.
LEMMA JoinerWaits ==
    ASSUME NEW c, NEW R, NEW L, NEW pub, NEW v, JoinerInv(c, R, L, pub, v),
           c.phase \notin {"Done", "Failed"}, NEW d, NEW R2, ClientInv(d, R2),
           d.phase = "ServerFinished" => d.cke.type = "ClientKeyExchange",
           d.phase = "Done" => Link(d) \in L
    PROVE  JoinerInv(d, R2, L, pub, v)
BY Zenon DEF JoinerInv

\* The joiner's first ClientHello.
LEMMA JoinerConnectKeeps ==
    ASSUME NEW c, NEW R, NEW L, NEW pub, NEW v, JoinerInv(c, R, L, pub, v), c.phase = "Start"
    PROVE  LET s == NextClientHello(Step([c EXCEPT !.phase = "HelloVerify"]))
           IN  /\ IsStep(s) /\ s.state.me = c.me
               /\ JoinerInv(s.state, R \cup Sent(s.out), L, pub, v)
<1> DEFINE s == NextClientHello(Step([c EXCEPT !.phase = "HelloVerify"]))
<1>1. /\ IsStep(s) /\ s.state.me = c.me /\ s.state.phase = "HelloVerify"
      /\ ClientInv(s.state, R \cup Sent(s.out))
    BY ConnectSends, Zenon DEF JoinerInv
<1> HIDE DEF s
<1>2. c.phase \notin {"Done", "Failed"} /\ s.state.phase # "ServerFinished"
      /\ s.state.phase # "Done"
    BY <1>1, Zenon
<1>3. JoinerInv(s.state, R \cup Sent(s.out), L, pub, v)
    BY <1>1, <1>2, JoinerWaits
<1>4. QED
    BY <1>1, <1>3, Zenon DEF s

\* The joiner's timer: its flight goes out again.
LEMMA JoinerTimerKeeps ==
    ASSUME NEW c, NEW R, NEW L, NEW pub, NEW v, JoinerInv(c, R, L, pub, v),
           c.phase \in ClientWaiting
    PROVE  LET s == IF c.phase = "ServerFinished" THEN SendFinishedFlight(Step(c))
                    ELSE ResendClientHello(Step(c))
           IN  /\ IsStep(s) /\ s.state.me = c.me
               /\ JoinerInv(s.state, R \cup Sent(s.out), L, pub, v)
<1> DEFINE t == Step(c)
           s == IF c.phase = "ServerFinished" THEN SendFinishedFlight(t)
                ELSE ResendClientHello(t)
<1>1. /\ t.state = c /\ t.out = <<>> /\ IsStep(t) /\ R \cup Sent(t.out) = R
    BY NothingSent, Zenon DEF Step, IsStep
<1>2. /\ ClientInv(t.state, R \cup Sent(t.out))
      /\ (c.phase = "ServerFinished" => c.cke.type = "ClientKeyExchange")
    BY <1>1, Zenon DEF JoinerInv
<1> HIDE DEF t
<1>3. /\ IsStep(s) /\ ClientInv(s.state, R \cup Sent(s.out))
      /\ s.state.me = c.me /\ s.state.phase = c.phase /\ s.state.cke = c.cke
    <2>1. CASE c.phase = "ServerFinished"
        <3> DEFINE y == SendFinishedFlight(t)
        <3>1. /\ IsStep(y) /\ ClientInv(y.state, R \cup Sent(y.out))
              /\ \A f \in ClientFields \ {"flight", "next0", "next1"} : y.state[f] = t.state[f]
            BY <1>1, <1>2, <2>1, FinishedFlightSent, Zenon
        <3>2. s = y
            BY <2>1, Zenon
        <3> HIDE DEF y, s
        <3>3. QED
            BY <1>1, <3>1, <3>2 DEF ClientFields
    <2>2. CASE c.phase # "ServerFinished"
        <3> DEFINE y == ResendClientHello(t)
        <3>1. t.state.phase \in {"HelloVerify", "ServerFlight"}
            BY <1>1, <2>2, Zenon DEF ClientWaiting
        <3>2. /\ IsStep(y) /\ ClientInv(y.state, R \cup Sent(y.out))
              /\ \A f \in ClientFields \ {"flight", "next0"} : y.state[f] = t.state[f]
            BY <1>1, <1>2, <3>1, ClientHelloResent, Zenon
        <3>3. s = y
            BY <2>2, Zenon
        <3> HIDE DEF y, s
        <3>4. QED
            BY <1>1, <3>2, <3>3 DEF ClientFields
    <2>3. QED
        BY <2>1, <2>2, Zenon
<1> HIDE DEF s
<1>4. c.phase \notin {"Done", "Failed"} /\ s.state.phase # "Done"
      /\ (s.state.phase = "ServerFinished" => s.state.cke.type = "ClientKeyExchange")
    BY <1>2, <1>3, Zenon DEF ClientWaiting
<1>5. JoinerInv(s.state, R \cup Sent(s.out), L, pub, v)
    BY <1>3, <1>4, JoinerWaits
<1>6. QED
    BY <1>3, <1>5, Zenon DEF s, t

\* The joiner's application data takes the next number.
LEMMA JoinerSendKeeps ==
    ASSUME NEW c, NEW R, NEW L, NEW pub, NEW v, JoinerInv(c, R, L, pub, v), c.phase = "Done",
           NEW message
    PROVE  LET d == [c EXCEPT !.next1 = @ + 1]
           IN  d.me = c.me
               /\ JoinerInv(d, R \cup {Sealed(c.next1, "data", c.key, message)}, L, pub, v)
<1> DEFINE d == [c EXCEPT !.next1 = @ + 1]
           record == Sealed(c.next1, "data", c.key, message)
<1>1. /\ (\A f \in ClientFields \ {"next1"} : d[f] = c[f]) /\ ClientInv(d, R \cup {record})
    BY ClientSeals, Zenon DEF JoinerInv
<1> HIDE DEF d, record
<1>2. d.me = c.me /\ d.phase = c.phase /\ d.key = c.key /\ d.transcript = c.transcript
    BY <1>1, Zenon DEF ClientFields
<1>3. Link(d) = Link(c)
    BY <1>2, Zenon DEF Link
<1>4. JoinerInv(d, R \cup {record}, L, pub, v)
    BY <1>1, <1>2, <1>3 DEF JoinerInv
<1>5. QED
    BY <1>2, <1>4, Zenon DEF d, record

\* The joiner fails and says so.
LEMMA JoinerAlertKeeps ==
    ASSUME NEW c, NEW R, NEW L, NEW pub, NEW v, JoinerInv(c, R, L, pub, v),
           c.phase \in ClientWaiting \cup {"Done"}
    PROVE  LET d == [c EXCEPT !.phase = "Failed"]
               record == IF c.phase = "Done" THEN Sealed(c.next1, "alert", c.key, None)
                         ELSE FatalAlert(c.next0)
           IN  d.me = c.me /\ JoinerInv(d, R \cup {record}, L, pub, v)
<1> DEFINE d == [c EXCEPT !.phase = "Failed"]
           record == IF c.phase = "Done" THEN Sealed(c.next1, "alert", c.key, None)
                     ELSE FatalAlert(c.next0)
<1>1. ClientInv(c, R) /\ ClientCore(c, R) /\ c.phase # "Start" /\ c.phase # "Failed"
    BY Zenon DEF JoinerInv, ClientInv, ClientWaiting
<1>2. /\ IsClient(c) /\ c.next0 \in Nat /\ c.next1 \in Nat /\ Distinct(R)
      /\ (\A r \in R : Numbered(r, c.next0, c.next1))
      /\ (c.phase = "Done" => c.key[1] = ClientSecret)
      /\ (\A r \in R : r.epoch = 1 => r.key = c.key /\ c.key[1] = ClientSecret)
    BY <1>1, Zenon DEF ClientCore
<1>3. /\ IsClient(d) /\ d.phase = "Failed" /\ \A f \in ClientFields \ {"phase"} : d[f] = c[f]
    BY <1>2 DEF IsClient, ClientFields
<1>4. \/ record.epoch = 0 /\ record.seq = c.next0
      \/ record.epoch = 1 /\ record.seq = c.next1 /\ record.key = c.key /\ c.phase = "Done"
    BY Zenon DEF Sealed, FatalAlert, Record
<1> HIDE DEF d, record
<1>5. /\ d.me = c.me /\ d.key = c.key /\ d.transcript = c.transcript
      /\ d.next0 = c.next0 /\ d.next1 = c.next1 /\ d.recorded = c.recorded
      /\ d.lastHello = c.lastHello /\ d.nextMessage = c.nextMessage /\ d.hello = c.hello
    BY <1>3, Zenon DEF ClientFields
<1>6. Distinct(R \cup {record})
    BY <1>2, <1>4 DEF Distinct, Numbered
<1>7. \A r \in R \cup {record} : r.epoch = 1 => r.key = d.key /\ d.key[1] = ClientSecret
    BY <1>2, <1>4, <1>5
<1>8. ClientCore(d, R \cup {record})
    BY <1>1, <1>3, <1>5, <1>6, <1>7, Zenon DEF ClientCore, Keyless
<1>9. ClientInv(d, R \cup {record})
    BY <1>1, <1>3, <1>5, <1>8, Zenon DEF ClientInv
<1>10. Link(d) = Link(c)
    BY <1>5, Zenon DEF Link
<1>11. JoinerInv(d, R \cup {record}, L, pub, v)
    BY <1>3, <1>5, <1>9, <1>10, Zenon DEF JoinerInv
<1>12. QED
    BY <1>5, <1>11 DEF d, record

\* A datagram of the commissioner's session `run`.
LEMMA JoinerReceiveKeeps ==
    ASSUME NEW c, NEW R, NEW L, NEW pub, NEW v, JoinerInv(c, R, L, pub, v),
           NEW S, NEW run, RunSent(S, run, L, Told(pub, run)),
           NEW records, Len(records) \in Nat \ {0}, \A i \in 1..Len(records) : records[i] \in S
    PROVE  LET s == ClientDatagram(c, records)
               v2 == IF /\ c.phase = "Done"
                        /\ records[1].content = "data"
                        /\ Opens(records[1], c.key)
                     THEN Body(records[1].message) ELSE v
           IN  /\ IsStep(s) /\ s.state.me = c.me
               /\ JoinerInv(s.state, R \cup Sent(s.out), L, pub, v2)
<1> DEFINE s == ClientDatagram(c, records)
           r == records[1]
           v2 == IF c.phase = "Done" /\ r.content = "data" /\ Opens(r, c.key)
                 THEN Body(r.message) ELSE v
<1>1. ClientInv(c, R) /\ (c.phase = "ServerFinished" => c.cke.type = "ClientKeyExchange")
    BY Zenon DEF JoinerInv
<1>2. ClientFold(c, s, R) /\ ClientRun(c, s, records)
    BY <1>1, ClientRuns, Zenon
<1> HIDE DEF s
<1>3. IsStep(s) /\ s.state.me = c.me /\ ClientInv(s.state, R \cup Sent(s.out))
    BY <1>2, Zenon DEF ClientFold
<1>4. CASE c.phase \in ClientWaiting
    <2>1. c.phase \notin {"Done", "Failed"} /\ v2 = v
        BY <1>4, Zenon DEF ClientWaiting
    <2>2. s.state.phase = "ServerFinished" => s.state.cke.type = "ClientKeyExchange"
        BY <1>2, Zenon DEF ClientRun
    <2>3. ASSUME s.state.phase = "Done" PROVE Link(s.state) \in L
        <3>1. \E i \in 1..Len(records) : Confirms(records[i], s.state)
            BY <1>2, <2>1, <2>3, Zenon DEF ClientRun
        <3>2. PICK i \in 1..Len(records) : Confirms(records[i], s.state)
            BY <3>1, Zenon
        <3> DEFINE m == records[i].message
        <3>3. PICK t : /\ Body(m) = <<"server", s.state.key, t>>
                       /\ s.state.transcript = Append(t, m)
            BY <3>2, Zenon DEF Confirms
        <3>4. Opened(m, L)
            <4>1. records[i] \in S /\ records[i].epoch = 1 /\ records[i].content = "handshake"
                BY <3>2, Zenon DEF Confirms
            <4>2. QED
                BY <4>1, Zenon DEF RunSent
        <3> HIDE DEF m
        <3>5. Body(m)[2] = s.state.key /\ Body(m)[3] = t
            BY <3>3
        <3>6. QED
            BY <3>3, <3>4, <3>5 DEF Opened, Link
    <2>4. JoinerInv(s.state, R \cup Sent(s.out), L, pub, v)
        BY <1>3, <2>1, <2>2, <2>3, JoinerWaits, Zenon
    <2>5. QED
        BY <1>3, <2>1, <2>4, Zenon DEF s
<1>5. CASE c.phase \notin ClientWaiting
    <2>1. s = Step(c)
        BY <1>2, <1>5, Zenon DEF ClientRun
    <2>2. s.state = c /\ R \cup Sent(s.out) = R
        BY <2>1, NothingSent, Zenon DEF Step
    <2>3. CASE v2 = v
        <3>1. JoinerInv(s.state, R \cup Sent(s.out), L, pub, v)
            BY <2>2, Zenon
        <3>2. QED
            BY <1>3, <2>3, <3>1, Zenon DEF s
    <2>4. CASE c.phase = "Done" /\ r.content = "data" /\ Opens(r, c.key)
        <3>1. r \in S
            <4>1. 1 \in 1..Len(records)
                OBVIOUS
            <4>2. QED
                BY <4>1, Zenon
        <3>2. r.key[3] = run /\ Told(pub, run) = {Body(r.message)} /\ r.key = c.key
            BY <2>4, <3>1 DEF RunSent, Opens
        <3>3. v2 = Body(r.message)
            BY <2>4, Zenon
        <3> HIDE DEF r
        <3>4. Told(pub, c.key[3]) = {v2}
            BY <3>2, <3>3, Zenon
        <3> HIDE DEF v2
        <3>5. JoinerInv(c, R, L, pub, v2)
            BY <2>4, <3>4 DEF JoinerInv
        <3>6. QED
            BY <1>3, <2>2, <3>5, Zenon DEF s, v2, r
    <2>5. QED
        BY <2>3, <2>4, Zenon
<1>6. QED
    BY <1>4, <1>5, Zenon

-----------------------------------------------------------------------------
(* The commissioner *)

Of(run) == <<"session", run>>

\* The records of every session so far.
RunsSent(w, k, L, pub) == \A j \in 1..k : RunSent(By(w, Of(j)), j, L, Told(pub, j))

Reported(pub, k) ==
    /\ IsSequence(pub)
    /\ InOrder(pub)
    /\ \A i \in 1..Len(pub) : pub[i].run \in 1..k

AskedOnce(ask, k) ==
    /\ IsSequence(ask)
    /\ \A i \in 1..Len(ask) : ask[i] \in 1..k
    /\ \A i, j \in 1..Len(ask) : ask[i] = ask[j] => i = j

Unasked(ask, run) == \A i \in 1..Len(ask) : ask[i] # run

AnswersRelayed(rel, k, pub) ==
    \A a \in rel : a.run \in 1..k /\ a.kek = a.accepted /\ Told(pub, a.run) = {a.accepted}

SenderKnown(w, me, k) ==
    \A x \in w :
        /\ x = <<x[1], x[2]>>
        /\ (\E i \in 1..me : x[1] = <<"client", i>>) \/ (\E j \in 1..k : x[1] = Of(j))

\* A datagram for the joiner carries records of one session.
UnderWay(d, w, k) ==
    /\ d = Datagram(d.to, d.from, d.records)
    /\ Len(d.records) \in Nat
    /\ d.to = "client" =>
            /\ Len(d.records) # 0
            /\ \E j \in 1..k : \A i \in 1..Len(d.records) : d.records[i] \in By(w, Of(j))

\* What holds of the commissioner when it has created k sessions.
Books(n, w, me, k, pub, ask, rel, L) ==
    /\ k \in Nat
    /\ RunsSent(w, k, L, pub)
    /\ Reported(pub, k)
    /\ AskedOnce(ask, k)
    /\ AnswersRelayed(rel, k, pub)
    /\ SenderKnown(w, me, k)
    /\ \A d \in n : UnderWay(d, w, k)

\* A session that may take a datagram.
LiveInv(s, w, k, pub, ask, L) ==
    /\ s.run = k
    /\ k # 0
    /\ SessionInv(s, By(w, Of(k)), L, pub)
    /\ s.decision = None => Unasked(ask, k)

\* Fewer records sent, more sessions connected.
LEMMA RunSentLess ==
    ASSUME NEW S, NEW run, NEW L, NEW told, RunSent(S, run, L, told), NEW S2, S2 \subseteq S,
           NEW L2, L \subseteq L2
    PROVE  RunSent(S2, run, L2, told)
<1>1. \A x, y \in S2 : x.epoch = 1 /\ y.epoch = 1 /\ x.seq = y.seq => x = y
    BY Zenon DEF RunSent
<1>2. \A r \in S2 : r.epoch = 1 /\ r.content = "handshake" => Opened(r.message, L2)
    BY Zenon DEF RunSent, Opened
<1>3. \A r \in S2 : r.content = "data" => r.key[3] = run /\ told = {Body(r.message)}
    BY Zenon DEF RunSent
<1>4. QED
    BY <1>1, <1>2, <1>3 DEF RunSent

\* Sessions and joiners are told apart by their names.
LEMMA NamesDiffer ==
    /\ \A i, j : <<"client", i>> # Of(j)
    /\ \A i, j : Of(i) = Of(j) => i = j
    /\ \A i, j : <<"client", i>> = <<"client", j>> => i = j
BY Zenon DEF Of

\* A new session enters the books.
LEMMA NextRun ==
    ASSUME NEW n, NEW w, NEW me, NEW k, NEW pub, NEW ask, NEW rel, NEW L,
           Books(n, w, me, k, pub, ask, rel, L), NEW secret, NEW route
    PROVE  LET s == NewSession(k + 1, secret, route)
           IN  /\ Books(n, w, me, k + 1, pub, ask, rel, L)
               /\ LiveInv(s, w, k + 1, pub, ask, L)
               /\ s.run = k + 1 /\ k + 1 # k
<1> DEFINE s == NewSession(k + 1, secret, route)
<1>1. /\ k \in Nat /\ k + 1 \in Nat /\ k + 1 # 0 /\ k + 1 # k /\ k + 1 \notin 1..k
      /\ \A j \in 1..(k + 1) : j \in 1..k \/ j = k + 1
      /\ \A j \in 1..k : j \in 1..(k + 1)
    BY DEF Books
<1>2. By(w, Of(k + 1)) = {}
    <2>1. \A x \in w : x[1] # Of(k + 1)
        BY <1>1, NamesDiffer DEF Books, SenderKnown
    <2>2. QED
        BY <2>1, Zenon DEF By
<1>3. (\A i \in 1..Len(pub) : pub[i].run # k + 1) /\ IsSequence(pub) /\ Unasked(ask, k + 1)
    BY <1>1 DEF Books, Reported, AskedOnce, Unasked
<1>4. Told(pub, k + 1) = {}
    BY <1>3, Zenon DEF Told
<1>5. RunSent({}, k + 1, L, {})
    BY Zenon DEF RunSent
<1>6. RunsSent(w, k + 1, L, pub)
    <2>1. ASSUME NEW j \in 1..(k + 1)
          PROVE  RunSent(By(w, Of(j)), j, L, Told(pub, j))
        <3>1. CASE j \in 1..k
            BY <3>1 DEF Books, RunsSent
        <3>2. CASE j = k + 1
            BY <1>2, <1>4, <1>5, <3>2
        <3>3. QED
            BY <1>1, <3>1, <3>2
    <2>2. QED
        BY <2>1, Zenon DEF RunsSent
<1>7. Reported(pub, k + 1) /\ AskedOnce(ask, k + 1) /\ AnswersRelayed(rel, k + 1, pub)
    BY <1>1, Zenon DEF Books, Reported, AskedOnce, AnswersRelayed
<1>8. SenderKnown(w, me, k + 1) /\ \A d \in n : UnderWay(d, w, k + 1)
    <2>1. SenderKnown(w, me, k + 1)
        BY <1>1, Zenon DEF Books, SenderKnown
    <2>2. \A d \in n : UnderWay(d, w, k + 1)
        BY <1>1, Zenon DEF Books, UnderWay
    <2>3. QED
        BY <2>1, <2>2
<1>9. SessionInv(s, {}, L, pub) /\ s.run = k + 1
    BY <1>3, SessionCreated
<1> HIDE DEF s
<1>10. LiveInv(s, w, k + 1, pub, ask, L)
    BY <1>1, <1>2, <1>3, <1>9, Zenon DEF LiveInv
<1>11. Books(n, w, me, k + 1, pub, ask, rel, L)
    BY <1>1, <1>6, <1>7, <1>8 DEF Books
<1>12. QED
    BY <1>1, <1>9, <1>10, <1>11 DEF s

\* The handler was asked, or it was not.
LEMMA AskedGrows ==
    ASSUME NEW ask, NEW k \in Nat, k # 0, AskedOnce(ask, k), NEW a \in {0, 1},
           a = 1 => Unasked(ask, k)
    PROVE  LET q == ask \o [i \in 1..a |-> k]
           IN  AskedOnce(q, k) /\ (a = 0 => q = ask)
<1> DEFINE e == [i \in 1..a |-> k]
           q == ask \o e
<1>1. e \in Seq({k}) /\ Len(e) = a /\ \A i \in 1..a : e[i] = k
    OBVIOUS
<1>2. IsSequence(e)
    BY <1>1, Zenon DEF IsSequence
<1>3. a = 0 => e = <<>>
    BY <1>1
<1> HIDE DEF e
<1>4. IsSequence(ask)
    BY Zenon DEF AskedOnce
<1>5. /\ IsSequence(q) /\ Len(ask) \in Nat /\ Len(q) = Len(ask) + Len(e)
      /\ (\A i \in 1..Len(ask) : q[i] = ask[i])
      /\ (\A i \in 1..Len(e) : q[Len(ask) + i] = e[i])
      /\ ask \o <<>> = ask
    BY <1>2, <1>4, Concatenation
<1>6. a = 0 => q = ask
    BY <1>3, <1>5, Zenon
<1> HIDE DEF q
<1>7. CASE a = 0
    BY <1>6, <1>7 DEF q, e
<1>8. CASE a = 1
    <2>1. Len(q) = Len(ask) + 1 /\ q[Len(ask) + 1] = k
        BY <1>1, <1>5, <1>8
    <2>2. \A i \in 1..Len(q) :
             (i \in 1..Len(ask) /\ q[i] = ask[i]) \/ (i = Len(ask) + 1 /\ q[i] = k)
        BY <1>5, <2>1
    <2>3. \A i \in 1..Len(ask) : ask[i] # k /\ ask[i] \in 1..k
        BY <1>8, Zenon DEF Unasked, AskedOnce
    <2>4. k \in 1..k
        OBVIOUS
    <2>5. \A i, j \in 1..Len(q) : q[i] = q[j] => i = j
        BY <2>2, <2>3 DEF AskedOnce
    <2>6. \A i \in 1..Len(q) : q[i] \in 1..k
        BY <2>2, <2>3, <2>4
    <2>7. AskedOnce(q, k)
        BY <1>5, <2>5, <2>6 DEF AskedOnce
    <2>8. QED
        BY <1>8, <2>7 DEF q, e
<1>9. QED
    BY <1>7, <1>8

RecordsOf(sent) == UNION {{t.records[i] : i \in 1..Len(t.records)} : t \in sent}
WireWith(w, name, sent) == w \cup {<<name, r>> : r \in RecordsOf(sent)}
NetWith(n, taken, s, me, sent) ==
    (n \ taken) \cup
        (IF s.route = me THEN {Datagram("client", RunOf(s), t.records) : t \in sent} ELSE {})
RelayedWith(rel, s, sent) ==
    rel \cup {[run |-> s.run, accepted |-> Body(t.records[1].message), kek |-> t.kek] :
                t \in {u \in sent : u.records[1].content = "data"}}

\* What a session sends is added to its records and to no others.
LEMMA WireWithGrows ==
    ASSUME NEW w, NEW name, NEW sent
    PROVE  LET w2 == WireWith(w, name, sent)
           IN  /\ By(w2, name) = By(w, name) \cup RecordsOf(sent)
               /\ \A other : other # name => By(w2, other) = By(w, other)
               /\ \A other : By(w, other) \subseteq By(w2, other)
               /\ \A x \in w2 : x \in w \/ \E r : x = <<name, r>>
<1> DEFINE w2 == WireWith(w, name, sent)
           R == RecordsOf(sent)
<1>1. w2 = w \cup {<<name, r>> : r \in R}
    BY Zenon DEF WireWith
<1> HIDE DEF w2, R
<1>2. By(w2, name) \subseteq By(w, name) \cup R
    BY <1>1 DEF By
<1>3. By(w, name) \cup R \subseteq By(w2, name)
    <2>1. By(w, name) \subseteq By(w2, name)
        BY <1>1 DEF By
    <2>2. ASSUME NEW r \in R PROVE r \in By(w2, name)
        <3>1. <<name, r>> \in w2 /\ <<name, r>>[1] = name /\ <<name, r>>[2] = r
            BY <1>1, Zenon
        <3>2. QED
            BY <3>1, Zenon DEF By
    <2>3. QED
        BY <2>1, <2>2, Zenon
<1>4. ASSUME NEW other, other # name PROVE By(w2, other) = By(w, other)
    BY <1>1, <1>4 DEF By
<1>5. \A other : By(w, other) \subseteq By(w2, other)
    BY <1>1, Zenon DEF By
<1>6. \A x \in w2 : x \in w \/ \E r : x = <<name, r>>
    BY <1>1, Zenon
<1>7. QED
    BY <1>2, <1>3, <1>4, <1>5, <1>6 DEF w2, R

\* What was transmitted is part of what the session returned.
LEMMA SentParts ==
    ASSUME NEW out, NEW sent, sent \subseteq {out[i] : i \in 1..Len(out)}
    PROVE  /\ RecordsOf(sent) \subseteq SentIn(out)
           /\ sent = {out[i] : i \in 1..Len(out)} => RecordsOf(sent) = SentIn(out)
BY DEF RecordsOf, SentIn, Elements

\* A decision is told once.
LEMMA DecisionStands ==
    ASSUME NEW s, NEW x, NEW S, NEW L, NEW pub, SessionInv(s, S, L, pub),
           Receives(s, x, S, L, pub)
    PROVE  Persists(pub, pub \o x.events)
<1> DEFINE pub2 == pub \o x.events
<1>1. /\ Told(pub, s.run) = Decided(s) /\ Told(pub2, s.run) = Decided(x.state)
      /\ (s.phase = "Finalized" => Decided(x.state) = Decided(s))
      /\ (\A run : run # s.run => Told(pub2, run) = Told(pub, run))
    BY Zenon DEF SessionInv, Receives
<1> HIDE DEF pub2
<1>2. Decided(s) # {} => s.phase = "Finalized"
    BY Zenon DEF Decided
<1>3. Told(pub, s.run) # {} => Told(pub2, s.run) = Told(pub, s.run)
    BY <1>1, <1>2, Zenon
<1>4. ASSUME NEW run, NEW v, Told(pub, run) = {v} PROVE Told(pub2, run) = {v}
    <2>1. CASE run = s.run
        BY <1>3, <1>4, <2>1
    <2>2. CASE run # s.run
        BY <1>1, <1>4, <2>2
    <2>3. QED
        BY <2>1, <2>2
<1>5. QED
    BY <1>4, Zenon DEF Persists, pub2

\* A session handled a datagram, and `sent` of what it returned went out.
LEMMA BooksKept ==
    ASSUME NEW n, NEW w, NEW me, NEW k, NEW pub, NEW ask, NEW rel, NEW L,
           Books(n, w, me, k, pub, ask, rel, L), NEW s, LiveInv(s, w, k, pub, ask, L),
           NEW x, ReceiveFold(s, x, By(w, Of(k)), L, pub), ~x.stop,
           NEW sent, sent \subseteq {x.out[i] : i \in 1..Len(x.out)}, NEW taken
    PROVE  LET w2 == WireWith(w, Of(k), sent)
               pub2 == pub \o x.events
               L2 == Links(L, x.state)
           IN  /\ Books(NetWith(n, taken, s, me, sent), w2, me, k, pub2, ask,
                        RelayedWith(rel, s, sent), L2)
               /\ L \subseteq L2 /\ Persists(pub, pub2)
               /\ sent = {x.out[i] : i \in 1..Len(x.out)} =>
                    SessionInv(x.state, By(w2, Of(k)), L2, pub2)
<1> DEFINE S == By(w, Of(k))
           T == S \cup SentIn(x.out)
           w2 == WireWith(w, Of(k), sent)
           pub2 == pub \o x.events
           L2 == Links(L, x.state)
           n2 == NetWith(n, taken, s, me, sent)
           rel2 == RelayedWith(rel, s, sent)
           c == x.state
<1>1. /\ k \in Nat /\ k # 0 /\ s.run = k /\ SessionInv(s, S, L, pub) /\ k \in 1..k
      /\ Receives(s, x, S, L, pub) /\ IsSequence(x.events) /\ IsSequence(pub)
    BY DEF Books, Reported, LiveInv, ReceiveFold
<1>2. /\ SessionInv(c, T, L2, pub2) /\ c.run = k /\ InOrder(pub2)
      /\ (\A i \in 1..Len(x.out) : Transmission(x.out[i], c))
      /\ (\A i \in 1..Len(x.events) : x.events[i].run = k)
      /\ (\A run : run # k => Told(pub2, run) = Told(pub, run))
    BY <1>1, Zenon DEF Receives
<1>3. L \subseteq L2
    BY Zenon DEF Links
<1>4. Persists(pub, pub2)
    BY <1>1, DecisionStands, Zenon
<1>5. /\ By(w2, Of(k)) = S \cup RecordsOf(sent)
      /\ (\A other : other # Of(k) => By(w2, other) = By(w, other))
      /\ (\A other : By(w, other) \subseteq By(w2, other))
      /\ (\A y \in w2 : y \in w \/ \E r : y = <<Of(k), r>>)
    BY WireWithGrows DEF S
<1>6. /\ RecordsOf(sent) \subseteq SentIn(x.out)
      /\ (sent = {x.out[i] : i \in 1..Len(x.out)} => RecordsOf(sent) = SentIn(x.out))
    BY SentParts, Zenon
<1>7. /\ IsSequence(pub2) /\ Len(pub) \in Nat /\ Len(x.events) \in Nat
      /\ Len(pub2) = Len(pub) + Len(x.events)
      /\ (\A i \in 1..Len(pub) : pub2[i] = pub[i])
      /\ (\A i \in 1..Len(x.events) : pub2[Len(pub) + i] = x.events[i])
    BY <1>1, Concatenation
<1> HIDE DEF S, T, w2, pub2, L2, n2, rel2, c
<1>8. /\ RunSent(T, k, L2, Decided(c)) /\ Told(pub2, k) = Decided(c)
      /\ (c.phase = "Finalized" => Decided(c) = {c.decision})
    BY <1>2, Zenon DEF SessionInv, Decided
<1>9. RunsSent(w2, k, L2, pub2)
    <2>1. ASSUME NEW j \in 1..k PROVE RunSent(By(w2, Of(j)), j, L2, Told(pub2, j))
        <3>1. CASE j = k
            <4>1. By(w2, Of(k)) \subseteq T
                BY <1>5, <1>6, Zenon DEF T
            <4>2. L2 \subseteq L2
                BY Zenon
            <4>3. RunSent(By(w2, Of(k)), k, L2, Decided(c))
                BY <1>8, <4>1, <4>2, RunSentLess, Zenon
            <4>4. QED
                BY <1>8, <3>1, <4>3, Zenon
        <3>2. CASE j # k
            <4>1. By(w2, Of(j)) = By(w, Of(j)) /\ Told(pub2, j) = Told(pub, j)
                BY <1>2, <1>5, <3>2, NamesDiffer, Zenon
            <4>2. RunSent(By(w, Of(j)), j, L, Told(pub, j)) /\ By(w, Of(j)) \subseteq By(w, Of(j))
                BY Zenon DEF Books, RunsSent
            <4>3. RunSent(By(w, Of(j)), j, L2, Told(pub, j))
                BY <1>3, <4>2, RunSentLess, Zenon
            <4>4. QED
                BY <4>1, <4>3, Zenon
        <3>3. QED
            BY <3>1, <3>2, Zenon
    <2>2. QED
        BY <2>1, Zenon DEF RunsSent
<1>10. Reported(pub2, k)
    <2>1. ASSUME NEW i \in 1..Len(pub2) PROVE pub2[i].run \in 1..k
        <3>1. CASE i \in 1..Len(pub)
            BY <1>7, <3>1, Zenon DEF Books, Reported
        <3>2. CASE i \notin 1..Len(pub)
            <4>1. i - Len(pub) \in 1..Len(x.events) /\ Len(pub) + (i - Len(pub)) = i
                BY <1>7, <3>2
            <4>2. pub2[i] = x.events[i - Len(pub)]
                BY <1>7, <4>1, Zenon
            <4>3. QED
                BY <1>1, <1>2, <4>1, <4>2, Zenon
        <3>3. QED
            BY <3>1, <3>2
    <2>2. QED
        BY <1>2, <1>7, <2>1, Zenon DEF Reported
<1>11. AnswersRelayed(rel2, k, pub2)
    <2>1. ASSUME NEW a \in rel
          PROVE  a.run \in 1..k /\ a.kek = a.accepted /\ Told(pub2, a.run) = {a.accepted}
        BY <1>4, Zenon DEF Books, AnswersRelayed, Persists
    <2>2. ASSUME NEW t \in sent, t.records[1].content = "data"
          PROVE  LET a == [run |-> s.run, accepted |-> Body(t.records[1].message), kek |-> t.kek]
                 IN  a.run \in 1..k /\ a.kek = a.accepted /\ Told(pub2, a.run) = {a.accepted}
        <3>1. Transmission(t, c)
            BY <1>2, Zenon
        <3>2. Len(t.records) \in Nat \ {0} /\ 1 \in 1..Len(t.records)
            BY <3>1 DEF Transmission
        <3>3. c.phase = "Finalized" /\ Body(t.records[1].message) = c.decision
              /\ t.kek = c.decision
            BY <2>2, <3>1, <3>2, Zenon DEF Transmission
        <3>4. QED
            BY <1>1, <1>8, <3>3, Zenon
    <2>3. QED
        BY <2>1, <2>2, Zenon DEF AnswersRelayed, RelayedWith, rel2
<1>12. SenderKnown(w2, me, k)
    <2>1. ASSUME NEW y \in w2
          PROVE  /\ y = <<y[1], y[2]>>
                 /\ (\E i \in 1..me : y[1] = <<"client", i>>) \/ (\E j \in 1..k : y[1] = Of(j))
        <3>1. CASE y \in w
            BY <3>1, Zenon DEF Books, SenderKnown
        <3>2. CASE \E r : y = <<Of(k), r>>
            BY <1>1, <3>2
        <3>3. QED
            BY <1>5, <3>1, <3>2
    <2>2. QED
        BY <2>1, Zenon DEF SenderKnown
<1>13. \A d \in n2 : UnderWay(d, w2, k)
    <2>1. ASSUME NEW d \in n PROVE UnderWay(d, w2, k)
        <3>1. UnderWay(d, w, k)
            BY Zenon DEF Books
        <3>2. QED
            BY <1>5, <3>1, Zenon DEF UnderWay
    <2>2. ASSUME NEW t \in sent PROVE UnderWay(Datagram("client", RunOf(s), t.records), w2, k)
        <3> DEFINE d == Datagram("client", RunOf(s), t.records)
        <3>1. /\ d = Datagram(d.to, d.from, d.records) /\ d.records = t.records
            BY Zenon DEF Datagram
        <3> HIDE DEF d
        <3>2. Len(t.records) \in Nat \ {0}
            BY <1>2, Zenon DEF Transmission
        <3>3. \A i \in 1..Len(t.records) : t.records[i] \in By(w2, Of(k))
            BY <1>5 DEF RecordsOf
        <3>4. UnderWay(d, w2, k)
            BY <1>1, <3>1, <3>2, <3>3, Zenon DEF UnderWay
        <3>5. QED
            BY <3>4, Zenon DEF d
    <2>3. QED
        BY <2>1, <2>2, Zenon DEF n2, NetWith
<1>14. Books(n2, w2, me, k, pub2, ask, rel2, L2)
    BY <1>1, <1>9, <1>10, <1>11, <1>12, <1>13, Zenon DEF Books
<1>15. ASSUME sent = {x.out[i] : i \in 1..Len(x.out)}
       PROVE  SessionInv(c, By(w2, Of(k)), L2, pub2)
    <2>1. By(w2, Of(k)) = T
        BY <1>5, <1>6, <1>15, Zenon DEF T
    <2>2. QED
        BY <1>2, <2>1, Zenon
<1>16. QED
    BY <1>3, <1>4, <1>14, <1>15, Zenon DEF w2, pub2, L2, n2, rel2, c

-----------------------------------------------------------------------------
(* The inductive invariant *)

RelayState(n, w, c, v, h, s, o, k, pub, ask, rel, L) ==
    /\ Books(n, w, c.me, k, pub, ask, rel, L)
    /\ h \in Handlers \cup {None}
    /\ s # None => h # None /\ o /\ LiveInv(s, w, k, pub, ask, L)
    /\ c.me \in Nat \ {0}
    /\ JoinerInv(c, By(w, <<"client", c.me>>), L, pub, v)
    /\ \A i \in 1..c.me : Distinct(By(w, <<"client", i>>))

\* The inductive invariant.
RelayInv ==
    RelayState(net, wire, cl, verdict, handler, session, open, runs, published, asked,
               relayed, linked)

\* The joiner sends.
LEMMA JoinerSent ==
    ASSUME NEW n, NEW w, NEW c, NEW v, NEW h, NEW s, NEW o, NEW k, NEW pub, NEW ask, NEW rel,
           NEW L, RelayState(n, w, c, v, h, s, o, k, pub, ask, rel, L),
           NEW d, d.me = c.me, NEW out, Flights(out), NEW taken, NEW v2,
           JoinerInv(d, By(w, <<"client", c.me>>) \cup Sent(out), L, pub, v2)
    PROVE  LET from == <<"client", c.me>>
               w2 == WireAfter(w, from, out)
           IN  RelayState(NetAfter(n, taken, "server", from, out), w2, d, v2, h, s, o, k,
                          pub, ask, rel, L)
<1> DEFINE from == <<"client", c.me>>
           w2 == WireAfter(w, from, out)
           n2 == NetAfter(n, taken, "server", from, out)
<1>1. /\ By(w2, from) = By(w, from) \cup Sent(out)
      /\ (\A name : name # from => By(w2, name) = By(w, name))
      /\ (\A x \in w2 : x \in w \/ x[1] = from)
    BY WireGrows
<1>2. \A x \in w2 : x \in w \/ x = <<from, x[2]>>
    BY DEF WireAfter
<1>3. \A d2 \in n2 : d2 \in n \/ \E i \in 1..Len(out) : d2 = Datagram("server", from, out[i])
    BY Zenon DEF NetAfter
<1>4. \A j : Of(j) # from
    BY NamesDiffer, Zenon
<1>5. c.me \in Nat \ {0} /\ c.me \in 1..c.me
    BY DEF RelayState
<1> HIDE DEF w2, n2
<1>6. \A j : By(w2, Of(j)) = By(w, Of(j))
    BY <1>1, <1>4, Zenon
<1>7. Books(n2, w2, c.me, k, pub, ask, rel, L)
    <2>1. Books(n, w, c.me, k, pub, ask, rel, L)
        BY Zenon DEF RelayState
    <2>2. RunsSent(w2, k, L, pub)
        BY <1>6, <2>1, Zenon DEF Books, RunsSent
    <2>3. SenderKnown(w2, c.me, k)
        <3>1. ASSUME NEW y \in w2
              PROVE  /\ y = <<y[1], y[2]>>
                     /\ (\E i \in 1..c.me : y[1] = <<"client", i>>) \/ (\E j \in 1..k : y[1] = Of(j))
            <4>1. CASE y \in w
                BY <2>1, <4>1 DEF Books, SenderKnown
            <4>2. CASE y = <<from, y[2]>>
                <5>1. y[1] = from
                    BY <4>2
                <5>2. QED
                    BY <1>5, <4>2, <5>1
            <4>3. QED
                BY <1>2, <4>1, <4>2
        <3>2. QED
            BY <3>1, Zenon DEF SenderKnown
    <2>4. \A e \in n2 : UnderWay(e, w2, k)
        <3>1. ASSUME NEW e \in n PROVE UnderWay(e, w2, k)
            <4>1. UnderWay(e, w, k)
                BY <2>1, Zenon DEF Books
            <4>2. QED
                BY <1>6, <4>1, Zenon DEF UnderWay
        <3>2. ASSUME NEW i \in 1..Len(out) PROVE UnderWay(Datagram("server", from, out[i]), w2, k)
            BY Zenon DEF Datagram, UnderWay, Flights
        <3>3. QED
            BY <1>3, <3>1, <3>2
    <2>5. QED
        BY <2>1, <2>2, <2>3, <2>4, Zenon DEF Books
<1>8. s # None => h # None /\ o /\ LiveInv(s, w2, k, pub, ask, L)
    BY <1>6, Zenon DEF RelayState, LiveInv
<1>9. JoinerInv(d, By(w2, <<"client", d.me>>), L, pub, v2)
    BY <1>1, Zenon
<1>10. \A i \in 1..d.me : Distinct(By(w2, <<"client", i>>))
    <2>1. ASSUME NEW i \in 1..d.me PROVE Distinct(By(w2, <<"client", i>>))
        <3>1. CASE i = c.me
            BY <1>9, <3>1, Zenon DEF JoinerInv, ClientInv, ClientCore
        <3>2. CASE i # c.me
            <4>1. <<"client", i>> # from
                BY <3>2
            <4>2. QED
                BY <1>1, <4>1, Zenon DEF RelayState
        <3>3. QED
            BY <3>1, <3>2
    <2>2. QED
        BY <2>1, Zenon
<1>11. RelayState(n2, w2, d, v2, h, s, o, k, pub, ask, rel, L)
    BY <1>5, <1>7, <1>8, <1>9, <1>10 DEF RelayState
<1>12. QED
    BY <1>11, Zenon DEF w2, n2

\* Datagrams are lost or split.
LEMMA NetThins ==
    ASSUME NEW n, NEW w, NEW c, NEW v, NEW h, NEW s, NEW o, NEW k, NEW pub, NEW ask, NEW rel,
           NEW L, RelayState(n, w, c, v, h, s, o, k, pub, ask, rel, L), NEW n2,
           \A e \in n2 : e \in n \/ \E d \in n : \E i \in 1..Len(d.records) :
                                        e = [d EXCEPT !.records = <<d.records[i]>>]
    PROVE  RelayState(n2, w, c, v, h, s, o, k, pub, ask, rel, L)
<1>1. \A d \in n : UnderWay(d, w, k)
    BY Zenon DEF RelayState, Books
<1>2. ASSUME NEW d \in n, NEW i \in 1..Len(d.records)
      PROVE  UnderWay([d EXCEPT !.records = <<d.records[i]>>], w, k)
    <2> DEFINE e == [d EXCEPT !.records = <<d.records[i]>>]
    <2>1. UnderWay(d, w, k)
        BY <1>1, Zenon
    <2>2. /\ e = Datagram(e.to, e.from, e.records) /\ e.to = d.to
          /\ e.records = <<d.records[i]>>
        <3>1. d = [to |-> d.to, from |-> d.from, records |-> d.records]
            BY <2>1, Zenon DEF UnderWay, Datagram
        <3>2. QED
            BY <3>1 DEF Datagram
    <2> HIDE DEF e
    <2>3. Len(e.records) = 1 /\ e.records[1] = d.records[i]
        BY <2>2
    <2>4. UnderWay(e, w, k)
        BY <2>1, <2>2, <2>3 DEF UnderWay
    <2>5. QED
        BY <2>4, Zenon DEF e
<1>3. \A e \in n2 : UnderWay(e, w, k)
    BY <1>1, <1>2
<1>4. Books(n2, w, c.me, k, pub, ask, rel, L)
    BY <1>3, Zenon DEF RelayState, Books
<1>5. QED
    BY <1>4, Zenon DEF RelayState

\* The joiner starts over.
LEMMA JoinerAgain ==
    ASSUME NEW n, NEW w, NEW c, NEW v, NEW h, NEW s, NEW o, NEW k, NEW pub, NEW ask, NEW rel,
           NEW L, RelayState(n, w, c, v, h, s, o, k, pub, ask, rel, L), v = None
    PROVE  RelayState(n, w, ClientStart(c.me + 1), v, h, s, o, k, pub, ask, rel, L)
<1> DEFINE d == ClientStart(c.me + 1)
           name == <<"client", c.me + 1>>
<1>1. d.me = c.me + 1 /\ d.phase = "Start" /\ ClientInv(d, {})
    BY StartedClient, Zenon
<1> HIDE DEF d
<1>2. /\ c.me \in Nat \ {0} /\ Books(n, w, c.me, k, pub, ask, rel, L)
      /\ \A i \in 1..c.me : Distinct(By(w, <<"client", i>>))
    BY Zenon DEF RelayState
<1>3. /\ c.me + 1 \in Nat \ {0} /\ c.me + 1 \notin 1..c.me
      /\ (\A i \in 1..(c.me + 1) : i \in 1..c.me \/ i = c.me + 1)
      /\ \A i \in 1..c.me : i \in 1..(c.me + 1)
    BY <1>2
<1>4. By(w, name) = {}
    <2>1. \A x \in w : x[1] # name
        BY <1>2, <1>3, NamesDiffer DEF Books, SenderKnown
    <2>2. QED
        BY <2>1 DEF By
<1>5. JoinerInv(d, By(w, name), L, pub, v)
    BY <1>1, <1>4, Zenon DEF JoinerInv
<1>6. \A i \in 1..d.me : Distinct(By(w, <<"client", i>>))
    <2>1. Distinct({})
        BY Zenon DEF Distinct
    <2>2. QED
        BY <1>1, <1>2, <1>3, <1>4, <2>1, Zenon
<1>7. Books(n, w, d.me, k, pub, ask, rel, L)
    <2>1. SenderKnown(w, d.me, k)
        BY <1>1, <1>2, <1>3, Zenon DEF Books, SenderKnown
    <2>2. QED
        BY <1>2, <2>1 DEF Books
<1>8. QED
    BY <1>1, <1>3, <1>5, <1>6, <1>7 DEF RelayState, d

\* A session is dropped, or the handler is replaced, or the session ages.
LEMMA SessionGoes ==
    ASSUME NEW n, NEW w, NEW c, NEW v, NEW h, NEW s, NEW o, NEW k, NEW pub, NEW ask, NEW rel,
           NEW L, RelayState(n, w, c, v, h, s, o, k, pub, ask, rel, L),
           NEW h2 \in Handlers \cup {None}, NEW s2, NEW o2,
           s2 = None \/ (s2 = s /\ (s # None => h2 # None /\ o2))
    PROVE  RelayState(n, w, c, v, h2, s2, o2, k, pub, ask, rel, L)
BY Zenon DEF RelayState

\* A session that is too old is otherwise as it was.
LEMMA SessionAges ==
    ASSUME NEW n, NEW w, NEW c, NEW v, NEW h, NEW s, NEW o, NEW k, NEW pub, NEW ask, NEW rel,
           NEW L, RelayState(n, w, c, v, h, s, o, k, pub, ask, rel, L), s # None
    PROVE  RelayState(n, w, c, v, h, [s EXCEPT !.expired = TRUE], o, k, pub, ask, rel, L)
<1> DEFINE t == [s EXCEPT !.expired = TRUE]
<1>1. LiveInv(s, w, k, pub, ask, L) /\ h # None /\ o
    BY Zenon DEF RelayState
<1>2. SessionInv(s, By(w, Of(k)), L, pub) /\ IsSession(s)
    BY <1>1 DEF LiveInv, SessionInv
<1>3. IsSession(t) /\ \A f \in SessionFields \ {"expired"} : t[f] = s[f]
    BY <1>2, Zenon DEF IsSession, SessionFields
<1> HIDE DEF t
<1>4. /\ t.run = s.run /\ t.phase = s.phase /\ t.decision = s.decision /\ t.next1 = s.next1
      /\ t.key = s.key /\ t.transcript = s.transcript /\ t.finished \in {s.finished, None}
      /\ t.flight = s.flight
    BY <1>3, Zenon DEF SessionFields
<1>5. SessionInv(t, By(w, Of(k)), L, pub)
    BY <1>2, <1>3, <1>4, SessionKept
<1>6. LiveInv(t, w, k, pub, ask, L)
    BY <1>1, <1>4, <1>5 DEF LiveInv
<1>7. QED
    BY <1>1, <1>6 DEF RelayState, t

-----------------------------------------------------------------------------
(* The steps *)

\* A session that is too old sends nothing more.
Retired ==
    session # None /\ session.expired => \A x \in wire' \ wire : x[1] # RunOf(session)

\* A step that sends nothing breaks no session's retirement.
LEMMA NothingNewSent == UNCHANGED wire => Retired
BY Zenon DEF Retired

\* A step of the joiner, given what it leaves of the joiner's invariant.
LEMMA SentByJoiner ==
    ASSUME RelayInv, NEW d, d.me = cl.me, NEW out, Flights(out), NEW taken, NEW v2,
           JoinerInv(d, By(wire, <<"client", cl.me>>) \cup Sent(out), linked, published, v2)
    PROVE  /\ cl' = d /\ verdict' = v2 /\ UNCHANGED commissioner
           /\ Exchange(taken, "server", ClientName(cl), out)
           => RelayInv' /\ Retired
<1> DEFINE from == <<"client", cl.me>>
           n2 == NetAfter(net, taken, "server", from, out)
           w2 == WireAfter(wire, from, out)
<1>1. RelayState(net, wire, cl, verdict, handler, session, open, runs, published, asked,
                 relayed, linked)
    BY Zenon DEF RelayInv
<1>2. RelayState(n2, w2, d, v2, handler, session, open, runs, published, asked, relayed, linked)
    BY <1>1, JoinerSent, Zenon
<1>3. SUFFICES ASSUME cl' = d, verdict' = v2, UNCHANGED commissioner,
                      Exchange(taken, "server", ClientName(cl), out)
               PROVE  RelayInv' /\ Retired
    BY Zenon
<1>4. net' = n2 /\ wire' = w2
    BY <1>3, ExchangeIs, Zenon DEF ClientName
<1> HIDE DEF n2, w2
<1>5. RelayInv'
    BY <1>2, <1>3, <1>4 DEF RelayInv, commissioner
<1>6. Retired
    <2>1. \A x \in w2 : x \in wire \/ x[1] = from
        BY WireGrows DEF w2
    <2>2. QED
        BY <1>4, <2>1 DEF Retired, RunOf
<1>7. QED
    BY <1>5, <1>6

\* One lemma per action: the joiner's first ClientHello.
LEMMA JoinerConnectsKeeps == RelayInv /\ JoinerConnects => RelayInv' /\ Retired
<1> SUFFICES ASSUME RelayInv, JoinerConnects PROVE RelayInv' /\ Retired
    BY Zenon
<1> DEFINE s == NextClientHello(Step([cl EXCEPT !.phase = "HelloVerify"]))
<1>1. /\ cl.phase = "Start" /\ cl' = s.state /\ Exchange({}, "server", ClientName(cl), s.out)
      /\ UNCHANGED commissioner /\ verdict' = verdict
    BY Zenon DEF JoinerConnects, Connect, ClientDoes
<1>2. JoinerInv(cl, By(wire, <<"client", cl.me>>), linked, published, verdict)
    BY Zenon DEF RelayInv, RelayState
<1>3. /\ IsStep(s) /\ s.state.me = cl.me
      /\ JoinerInv(s.state, By(wire, <<"client", cl.me>>) \cup Sent(s.out), linked, published,
                   verdict)
    BY <1>1, <1>2, JoinerConnectKeeps, Zenon
<1>4. Flights(s.out)
    BY <1>3, Zenon DEF IsStep
<1> HIDE DEF s
<1>5. QED
    BY <1>1, <1>3, <1>4, SentByJoiner, Zenon

\* The joiner's timer.
LEMMA JoinerTimeoutKeeps == RelayInv /\ JoinerTimeout => RelayInv' /\ Retired
<1> SUFFICES ASSUME RelayInv, JoinerTimeout PROVE RelayInv' /\ Retired
    OBVIOUS
<1> DEFINE s == IF cl.phase = "ServerFinished" THEN SendFinishedFlight(Step(cl))
                ELSE ResendClientHello(Step(cl))
<1>1. /\ cl.phase \in ClientWaiting /\ cl' = s.state
      /\ Exchange({}, "server", ClientName(cl), s.out)
      /\ UNCHANGED commissioner /\ verdict' = verdict
    BY Zenon DEF JoinerTimeout, ClientTimer, ClientDoes
<1>2. JoinerInv(cl, By(wire, <<"client", cl.me>>), linked, published, verdict)
    BY DEF RelayInv, RelayState
<1>3. /\ IsStep(s) /\ s.state.me = cl.me
      /\ JoinerInv(s.state, By(wire, <<"client", cl.me>>) \cup Sent(s.out), linked, published,
                   verdict)
    BY <1>1, <1>2, JoinerTimerKeeps, Zenon
<1>4. Flights(s.out)
    BY <1>3, Zenon DEF IsStep
<1> HIDE DEF s
<1>5. QED
    BY <1>1, <1>3, <1>4, SentByJoiner, Zenon

\* A datagram reaches the joiner, for the first time or again.
LEMMA JoinerReceivesKeeps ==
    ASSUME NEW again \in BOOLEAN
    PROVE  RelayInv /\ JoinerReceives(again) => RelayInv' /\ Retired
<1> SUFFICES ASSUME RelayInv, JoinerReceives(again) PROVE RelayInv' /\ Retired
    BY Zenon
<1>1. PICK d \in net :
          /\ ClientReceives(d, again)
          /\ verdict' = IF /\ cl.phase = "Done"
                           /\ d.records[1].content = "data"
                           /\ Opens(d.records[1], cl.key)
                        THEN Body(d.records[1].message) ELSE verdict
    BY Zenon DEF JoinerReceives
<1> DEFINE s == ClientDatagram(cl, d.records)
           taken == IF again THEN {} ELSE {d}
           v2 == IF /\ cl.phase = "Done"
                    /\ d.records[1].content = "data"
                    /\ Opens(d.records[1], cl.key)
                 THEN Body(d.records[1].message) ELSE verdict
<1>2. /\ d.to = "client" /\ cl' = s.state /\ Exchange(taken, "server", ClientName(cl), s.out)
      /\ UNCHANGED commissioner
    BY <1>1, Zenon DEF JoinerReceives, ClientReceives, ClientDoes
<1>3. /\ JoinerInv(cl, By(wire, <<"client", cl.me>>), linked, published, verdict)
      /\ UnderWay(d, wire, runs) /\ RunsSent(wire, runs, linked, published)
    BY Zenon DEF RelayInv, RelayState, Books
<1>4. PICK j \in 1..runs : \A i \in 1..Len(d.records) : d.records[i] \in By(wire, Of(j))
    BY <1>2, <1>3, Zenon DEF UnderWay
<1>5. Len(d.records) \in Nat \ {0} /\ RunSent(By(wire, Of(j)), j, linked, Told(published, j))
    BY <1>2, <1>3, Zenon DEF UnderWay, RunsSent
<1>6. /\ IsStep(s) /\ s.state.me = cl.me
      /\ JoinerInv(s.state, By(wire, <<"client", cl.me>>) \cup Sent(s.out), linked, published, v2)
    BY <1>3, <1>4, <1>5, JoinerReceiveKeeps, Zenon
<1>7. Flights(s.out)
    BY <1>6, Zenon DEF IsStep
<1> HIDE DEF s, v2, taken
<1>8. verdict' = v2
    BY <1>1 DEF v2
<1>9. QED
    BY <1>2, <1>6, <1>7, <1>8, SentByJoiner, Zenon

\* The joiner sends application data.
LEMMA JoinerSendsKeeps ==
    ASSUME NEW body
    PROVE  RelayInv /\ JoinerSends(body) => RelayInv' /\ Retired
<1> SUFFICES ASSUME RelayInv, JoinerSends(body) PROVE RelayInv' /\ Retired
    BY Zenon
<1> DEFINE record == Sealed(cl.next1, "data", cl.key, Message(body, 0, None))
           d == [cl EXCEPT !.next1 = @ + 1]
<1>1. /\ cl.phase = "Done" /\ cl' = d
      /\ Exchange({}, "server", ClientName(cl), <<<<record>>>>)
      /\ UNCHANGED commissioner /\ verdict' = verdict
    BY Zenon DEF JoinerSends
<1>2. JoinerInv(cl, By(wire, <<"client", cl.me>>), linked, published, verdict)
    BY Zenon DEF RelayInv, RelayState
<1>3. /\ d.me = cl.me
      /\ JoinerInv(d, By(wire, <<"client", cl.me>>) \cup {record}, linked, published, verdict)
    BY <1>1, <1>2, JoinerSendKeeps, Zenon
<1> HIDE DEF d, record
<1>4. Flights(<<<<record>>>>) /\ Sent(<<<<record>>>>) = {record}
    BY OneRecord
<1> DEFINE out == <<<<record>>>>
<1>5. /\ Flights(out) /\ Exchange({}, "server", ClientName(cl), out)
      /\ JoinerInv(d, By(wire, <<"client", cl.me>>) \cup Sent(out), linked, published, verdict)
    BY <1>1, <1>3, <1>4, Zenon
<1> HIDE DEF out
<1>6. QED
    BY <1>1, <1>3, <1>5, SentByJoiner, Zenon

\* The joiner fails and says so.
LEMMA JoinerAlertsKeeps == RelayInv /\ JoinerAlerts => RelayInv' /\ Retired
<1> SUFFICES ASSUME RelayInv, JoinerAlerts PROVE RelayInv' /\ Retired
    OBVIOUS
<1> DEFINE record == IF cl.phase = "Done" THEN Sealed(cl.next1, "alert", cl.key, None)
                     ELSE FatalAlert(cl.next0)
           d == [cl EXCEPT !.phase = "Failed"]
           out == <<<<record>>>>
<1>1. /\ cl.phase \in ClientWaiting \cup {"Done"} /\ cl' = d
      /\ Exchange({}, "server", ClientName(cl), out)
      /\ UNCHANGED commissioner /\ verdict' = verdict
    <2>1. (IF cl.phase = "Done" THEN <<<<Sealed(cl.next1, "alert", cl.key, None)>>>>
                ELSE <<<<FatalAlert(cl.next0)>>>>) = out
        BY Zenon
    <2>2. QED
        BY <2>1, Zenon DEF JoinerAlerts
<1>2. JoinerInv(cl, By(wire, <<"client", cl.me>>), linked, published, verdict)
    BY DEF RelayInv, RelayState
<1>3. /\ d.me = cl.me
      /\ JoinerInv(d, By(wire, <<"client", cl.me>>) \cup {record}, linked, published, verdict)
    BY <1>1, <1>2, JoinerAlertKeeps, Zenon
<1> HIDE DEF d, record
<1>4. Flights(<<<<record>>>>) /\ Sent(<<<<record>>>>) = {record}
    BY OneRecord, Zenon
<1>5. /\ Flights(out)
      /\ JoinerInv(d, By(wire, <<"client", cl.me>>) \cup Sent(out), linked, published, verdict)
    BY <1>3, <1>4, Zenon
<1> HIDE DEF out
<1>6. QED
    BY <1>1, <1>3, <1>5, SentByJoiner, Zenon

\* The joiner starts over, or a datagram is split or lost.
LEMMA QuietStepKeeps ==
    RelayInv /\ (JoinerStartsOver \/ JoinerSplits \/ RelayLoses) => RelayInv' /\ Retired
<1> SUFFICES ASSUME RelayInv, JoinerStartsOver \/ JoinerSplits \/ RelayLoses
             PROVE  RelayInv' /\ Retired
    BY Zenon
<1>1. Retired
    BY NothingNewSent DEF JoinerStartsOver, JoinerSplits, RelayLoses, Split, Lose
<1>2. CASE JoinerStartsOver
    <2>1. /\ verdict = None /\ cl' = ClientStart(cl.me + 1) /\ net' = {d \in net : d.to = "server"}
          /\ UNCHANGED <<wire, commissioner, verdict>>
        BY <1>2, Zenon DEF JoinerStartsOver
    <2>2. RelayState(net, wire, ClientStart(cl.me + 1), verdict, handler, session, open, runs,
                     published, asked, relayed, linked)
        BY <2>1, JoinerAgain DEF RelayInv
    <2> DEFINE n2 == {d \in net : d.to = "server"}
    <2>3. \A e \in n2 : e \in net
        BY Zenon
    <2> HIDE DEF n2
    <2>4. RelayState(n2, wire, ClientStart(cl.me + 1), verdict, handler, session, open,
                     runs, published, asked, relayed, linked)
        BY <2>2, <2>3, NetThins, Zenon
    <2>5. QED
        BY <1>1, <2>1, <2>4 DEF RelayInv, commissioner, n2
<1>3. CASE JoinerSplits \/ RelayLoses
    <2>1. UNCHANGED <<cl, wire, commissioner, verdict>>
        BY <1>3 DEF JoinerSplits, RelayLoses, Split, Lose
    <2>2. \A e \in net' : e \in net \/ \E d \in net : \E i \in 1..Len(d.records) :
                                e = [d EXCEPT !.records = <<d.records[i]>>]
        BY <1>3 DEF JoinerSplits, RelayLoses, Split, Lose
    <2>3. RelayState(net', wire, cl, verdict, handler, session, open, runs, published, asked,
                     relayed, linked)
        BY <2>2, NetThins, Zenon DEF RelayInv
    <2>4. QED
        BY <1>1, <2>1, <2>3 DEF RelayInv, commissioner
<1>4. QED
    BY <1>2, <1>3

\* The handler changes, the commissioner's session ends, or a session ages.
LEMMA CommandKeeps ==
    ASSUME NEW h \in Handlers \cup {None}
    PROVE  RelayInv /\ (SetJoinerHandler(h) \/ EndSession \/ Age) => RelayInv' /\ Retired
<1> SUFFICES ASSUME RelayInv, SetJoinerHandler(h) \/ EndSession \/ Age PROVE RelayInv' /\ Retired
    BY Zenon
<1>1. Retired /\ UNCHANGED <<cl, net, wire, runs, published, asked, relayed, linked, verdict>>
    BY NothingNewSent DEF SetJoinerHandler, EndSession, Age
<1>2. CASE SetJoinerHandler(h)
    <2>1. handler' = h /\ open' = open /\ (session' = None \/ (session' = session /\ h # None))
        BY <1>2, Zenon DEF SetJoinerHandler
    <2>2. session # None => open
        BY Zenon DEF RelayInv, RelayState
    <2>3. RelayState(net, wire, cl, verdict, handler', session', open', runs, published, asked,
                     relayed, linked)
        BY <2>1, <2>2, SessionGoes DEF RelayInv
    <2>4. QED
        BY <1>1, <2>3 DEF RelayInv
<1>3. CASE EndSession
    <2>1. handler' = handler /\ session' = None
        BY <1>3, Zenon DEF EndSession
    <2>2. handler \in Handlers \cup {None}
        BY Zenon DEF RelayInv, RelayState
    <2>3. RelayState(net, wire, cl, verdict, handler', session', open', runs, published, asked,
                     relayed, linked)
        BY <2>1, <2>2, SessionGoes DEF RelayInv
    <2>4. QED
        BY <1>1, <2>3 DEF RelayInv
<1>4. CASE Age
    <2>1. session # None /\ session' = [session EXCEPT !.expired = TRUE]
          /\ UNCHANGED <<handler, open>>
        BY <1>4 DEF Age
    <2>2. RelayState(net, wire, cl, verdict, handler, [session EXCEPT !.expired = TRUE], open, runs,
                     published, asked, relayed, linked)
        BY <2>1, SessionAges DEF RelayInv
    <2>3. QED
        BY <1>1, <2>1, <2>2 DEF RelayInv
<1>5. QED
    BY <1>2, <1>3, <1>4

\* The session that takes a datagram.
LEMMA SessionTaken ==
    ASSUME RelayInv, NEW route, Takes(route) # None
    PROVE  LET s == Takes(route)
           IN  /\ Books(net, wire, cl.me, s.run, published, asked, relayed, linked)
               /\ LiveInv(s, wire, s.run, published, asked, linked)
               /\ handler \in Handlers
               /\ session # None /\ session.expired => s.run # session.run
<1> DEFINE s == Takes(route)
<1>1. /\ Books(net, wire, cl.me, runs, published, asked, relayed, linked)
      /\ handler \in Handlers \cup {None}
      /\ (session # None => LiveInv(session, wire, runs, published, asked, linked))
    BY Zenon DEF RelayInv, RelayState
<1>2. handler \in Handlers
    BY <1>1, Zenon DEF Takes
<1>3. CASE Live # None
    <2>1. s = session /\ session # None /\ ~session.expired
        BY <1>2, <1>3 DEF Takes, Live
    <2> HIDE DEF s
    <2>2. s.run = runs
        BY <1>1, <2>1, Zenon DEF LiveInv
    <2>3. QED
        BY <1>1, <1>2, <2>1, <2>2 DEF s
<1>4. CASE Live = None
    <2>1. s = NewSession(runs + 1, JoinerPskd(handler), route)
        BY <1>4, Zenon DEF Takes
    <2> DEFINE fresh == NewSession(runs + 1, JoinerPskd(handler), route)
    <2>2. /\ Books(net, wire, cl.me, runs + 1, published, asked, relayed, linked)
          /\ LiveInv(fresh, wire, runs + 1, published, asked, linked)
          /\ fresh.run = runs + 1 /\ runs + 1 # runs
        BY <1>1, NextRun
    <2>3. session # None => session.run = runs
        BY <1>1, Zenon DEF LiveInv
    <2> HIDE DEF s, fresh
    <2>4. s = fresh
        BY <2>1, Zenon DEF fresh
    <2>5. QED
        BY <1>2, <2>2, <2>3, <2>4 DEF s
<1>5. QED
    BY <1>3, <1>4

\* The session that a datagram connects, and no other, is added.
LEMMA LinksAdded ==
    ASSUME NEW s, NEW x, NEW S, NEW L, NEW pub, SessionInv(s, S, L, pub),
           Receives(s, x, S, L, pub)
    PROVE  (IF ~Established(s) /\ Established(x.state)
            THEN L \cup {[key |-> x.state.key, transcript |-> x.state.transcript]} ELSE L)
           = Links(L, x.state)
<1>1. Established(s) => Link(x.state) = Link(s) /\ Link(s) \in L /\ Established(x.state)
    BY Zenon DEF SessionInv, Receives
<1>2. QED
    BY <1>1, Zenon DEF Links, Link

\* The handler was asked once more, and still once per run.
LEMMA AskedInBooks ==
    ASSUME NEW n, NEW w, NEW me, NEW k, NEW pub, NEW ask, NEW rel, NEW L,
           Books(n, w, me, k, pub, ask, rel, L), NEW ask2, AskedOnce(ask2, k)
    PROVE  Books(n, w, me, k, pub, ask2, rel, L)
BY Zenon DEF Books

\* handle_relay_rx: the datagram is taken by no session, its session fails, or
\* the session goes on and its answers are sent.
LEMMA RelayRxKeeps ==
    ASSUME NEW d, NEW again \in BOOLEAN, NEW failing \in BOOLEAN
    PROVE  RelayInv /\ RelayRx(d, again, failing) => RelayInv' /\ Retired
<1> SUFFICES ASSUME RelayInv, RelayRx(d, again, failing) PROVE RelayInv' /\ Retired
    BY Zenon
<1> DEFINE taken == IF again THEN {} ELSE {d}
           s == Takes(d.from[2])
           x == ReceiveRecords(s, d.records, handler.accepts)
           ask2 == asked \o [i \in 1..x.asked |-> s.run]
<1>1. /\ d \in net /\ UNCHANGED <<cl, handler, verdict>>
      /\ IF s = None THEN NotTaken(taken)
         ELSE /\ runs' = s.run
              /\ asked' = ask2
              /\ IF x.stop
                 THEN /\ session' = None
                      /\ net' = net \ taken
                      /\ UNCHANGED <<wire, open, published, relayed, linked>>
                 ELSE /\ session' = IF failing THEN None ELSE x.state
                      /\ open' = ~failing
                      /\ published' = published \o x.events
                      /\ \E n \in 0..Len(x.out) :
                            /\ failing <=> n < Len(x.out)
                            /\ Relay(taken, s, {x.out[i] : i \in 1..n})
                      /\ linked' = IF ~Established(s) /\ Established(x.state)
                                   THEN linked \cup {[key |-> x.state.key,
                                                      transcript |-> x.state.transcript]}
                                   ELSE linked
    BY Zenon DEF RelayRx
<1> HIDE DEF taken, s, x, ask2
<1>2. /\ Books(net, wire, cl.me, runs, published, asked, relayed, linked)
      /\ handler \in Handlers \cup {None} /\ cl.me \in Nat \ {0}
      /\ JoinerInv(cl, By(wire, <<"client", cl.me>>), linked, published, verdict)
      /\ (\A i \in 1..cl.me : Distinct(By(wire, <<"client", i>>)))
      /\ UnderWay(d, wire, runs)
    BY <1>1, Zenon DEF RelayInv, RelayState, Books
<1>3. CASE s = None
    <2>1. /\ session' = Live /\ net' = net \ taken
          /\ UNCHANGED <<wire, open, runs, published, asked, relayed, linked>>
        BY <1>1, <1>3 DEF NotTaken
    <2> DEFINE n2 == net \ taken
    <2>2. \A e \in n2 : e \in net
        BY Zenon
    <2> HIDE DEF n2
    <2>3. RelayState(n2, wire, cl, verdict, handler, session, open, runs, published, asked,
                     relayed, linked)
        BY <2>2, NetThins, Zenon DEF RelayInv
    <2>4. Live = None \/ (Live = session /\ (session # None => handler # None /\ open))
        BY Zenon DEF Live, RelayInv, RelayState
    <2>5. RelayState(n2, wire, cl, verdict, handler, Live, open, runs, published, asked,
                     relayed, linked)
        BY <1>2, <2>3, <2>4, SessionGoes
    <2>6. RelayInv'
        BY <1>1, <2>1, <2>5 DEF RelayInv, n2
    <2>7. QED
        BY <2>1, <2>6, NothingNewSent
<1>4. CASE s # None
    <2> DEFINE k == s.run
               S == By(wire, Of(k))
    <2>1. /\ Books(net, wire, cl.me, k, published, asked, relayed, linked)
          /\ LiveInv(s, wire, k, published, asked, linked)
          /\ handler \in Handlers
          /\ (session # None /\ session.expired => k # session.run)
        BY <1>4, SessionTaken, Zenon DEF s
    <2>2. /\ SessionInv(s, S, linked, published) /\ k \in Nat /\ k # 0
          /\ IsSequence(published) /\ InOrder(published) /\ AskedOnce(asked, k)
          /\ (s.decision = None => Unasked(asked, k))
        BY <2>1, Zenon DEF LiveInv, Books, Reported
    <2>3. handler.accepts # None
        BY <2>1, HandlersAssumption, Zenon
    <2>4. handler # None
        BY <1>4, Zenon DEF s, Takes
    <2>5. Len(d.records) \in Nat
        BY <1>2, Zenon DEF UnderWay
    <2>6. ReceiveFold(s, x, S, linked, published)
        BY <2>2, <2>3, <2>5, SessionReceives, Zenon DEF x
    <2> HIDE DEF k, S
    <2>7. x.asked \in {0, 1} /\ (x.asked = 1 => Unasked(asked, k))
        BY <2>2, <2>6 DEF ReceiveFold
    <2>8. AskedOnce(ask2, k) /\ (x.asked = 0 => ask2 = asked)
        BY <2>2, <2>7, AskedGrows, Zenon DEF ask2, k
    <2>9. CASE x.stop
        <3>1. /\ session' = None /\ net' = net \ taken /\ runs' = k /\ asked' = ask2
              /\ UNCHANGED <<wire, open, published, relayed, linked>>
            BY <1>1, <1>4, <2>9 DEF k
        <3>2. Books(net, wire, cl.me, k, published, ask2, relayed, linked)
            BY <2>1, <2>8, AskedInBooks
        <3>3. Books(net \ taken, wire, cl.me, k, published, ask2, relayed, linked)
            BY <3>2, Zenon DEF Books
        <3>4. RelayInv'
            BY <1>1, <1>2, <3>1, <3>3, Zenon DEF RelayInv, RelayState
        <3>5. QED
            BY <3>1, <3>4, NothingNewSent
    <2>10. CASE ~x.stop
        <3>0. PICK n \in 0..Len(x.out) : /\ failing <=> n < Len(x.out)
                                        /\ Relay(taken, s, {x.out[i] : i \in 1..n})
            BY <1>1, <1>4, <2>10
        <3> DEFINE sent == {x.out[i] : i \in 1..n}
                   n2 == NetWith(net, taken, s, cl.me, sent)
                   w2 == WireWith(wire, Of(k), sent)
                   rel2 == RelayedWith(relayed, s, sent)
                   pub2 == published \o x.events
                   L2 == Links(linked, x.state)
        <3>1. Receives(s, x, S, linked, published) /\ IsSequence(x.out) /\ IsSequence(x.events)
            BY <2>6, <2>10 DEF ReceiveFold
        <3>2. /\ session' = (IF failing THEN None ELSE x.state) /\ open' = ~failing /\ runs' = k
              /\ asked' = ask2 /\ published' = pub2 /\ linked' = L2 /\ Relay(taken, s, sent)
            BY <1>1, <1>4, <2>2, <2>10, <3>0, <3>1, LinksAdded, Zenon DEF k
        <3> HIDE DEF sent
        <3>3. net' = n2 /\ wire' = w2 /\ relayed' = rel2
            BY <3>2, Zenon DEF Relay, NetWith, WireWith, RelayedWith, RecordsOf, RunOf, Of, k
        <3>4. /\ sent \subseteq {x.out[i] : i \in 1..Len(x.out)}
              /\ (~failing => sent = {x.out[i] : i \in 1..Len(x.out)})
            <4>1. Len(x.out) \in Nat
                BY <3>1, SequenceAppend, Zenon
            <4>2. (\A i \in 1..n : i \in 1..Len(x.out)) /\ (~failing => n = Len(x.out))
                BY <3>0, <4>1
            <4>3. QED
                BY <4>2, Zenon DEF sent
        <3>5. /\ Books(n2, w2, cl.me, k, pub2, asked, rel2, L2)
              /\ linked \subseteq L2 /\ Persists(published, pub2)
              /\ (sent = {x.out[i] : i \in 1..Len(x.out)} =>
                    SessionInv(x.state, By(w2, Of(k)), L2, pub2))
            BY <2>1, <2>6, <2>10, <3>4, BooksKept, Zenon DEF S
        <3>6. (\A other : other # Of(k) => By(w2, other) = By(wire, other))
              /\ (\A y \in w2 : y \in wire \/ \E r : y = <<Of(k), r>>)
            BY WireWithGrows
        <3> HIDE DEF n2, w2, rel2, pub2, L2
        <3>7. Books(n2, w2, cl.me, k, pub2, ask2, rel2, L2)
            BY <2>8, <3>5, AskedInBooks, Zenon
        <3>8. ~failing => LiveInv(x.state, w2, k, pub2, ask2, L2)
            <4>1. x.state.run = k /\ (x.asked = 0 => x.state.decision = s.decision)
                  /\ (x.asked = 1 => x.state.decision # None)
                BY <3>1, Zenon DEF Receives, k
            <4>2. x.state.decision = None => Unasked(ask2, k)
                BY <2>2, <2>7, <2>8, <4>1, Zenon
            <4>3. QED
                BY <2>2, <3>4, <3>5, <4>1, <4>2, Zenon DEF LiveInv
        <3>9. \A i : By(w2, <<"client", i>>) = By(wire, <<"client", i>>)
            BY <3>6, NamesDiffer
        <3>10. JoinerInv(cl, By(w2, <<"client", cl.me>>), L2, pub2, verdict)
            BY <1>2, <3>5, <3>9, JoinerStands, Zenon
        <3>11. RelayInv'
            <4>1. session' # None =>
                    handler # None /\ open' /\ LiveInv(session', w2, k, pub2, ask2, L2)
                BY <2>4, <3>2, <3>8, Zenon
            <4>2. \A i \in 1..cl.me : Distinct(By(w2, <<"client", i>>))
                BY <1>2, <3>9, Zenon
            <4>3. RelayState(n2, w2, cl, verdict, handler, session', open', k, pub2, ask2, rel2, L2)
                BY <1>2, <3>7, <3>10, <4>1, <4>2 DEF RelayState
            <4>4. QED
                BY <1>1, <3>2, <3>3, <4>3, Zenon DEF RelayInv
        <3>12. Retired
            <4>1. ASSUME session # None, session.expired, NEW y \in wire' \ wire
                  PROVE  y[1] # RunOf(session)
                <5>1. PICK r : y = <<Of(k), r>>
                    BY <3>3, <3>6, <4>1
                <5>2. y[1] = Of(k) /\ k # session.run
                    BY <2>1, <4>1, <5>1
                <5>3. QED
                    BY <5>2, NamesDiffer DEF RunOf, Of
            <4>2. QED
                BY <4>1 DEF Retired
        <3>13. QED
            BY <3>11, <3>12
    <2>11. QED
        BY <2>9, <2>10
<1>5. QED
    BY <1>3, <1>4

\* Nothing was relayed at the start.
LEMMA RelayStarts == Init => RelayInv
<1> SUFFICES ASSUME Init PROVE RelayInv
    BY Zenon
<1>1. /\ net = {} /\ wire = {} /\ cl = ClientStart(1) /\ handler \in Handlers \cup {None}
      /\ session = None /\ runs = 0 /\ published = <<>> /\ asked = <<>> /\ relayed = {}
      /\ linked = {} /\ verdict = None
    BY Zenon DEF Init, NetworkInit
<1>2. cl.me = 1 /\ cl.phase = "Start" /\ ClientInv(cl, {})
    BY <1>1, StartedClient
<1>3. \A name : By({}, name) = {}
    BY Zenon DEF By
<1>4. IsSequence(<<>>) /\ Len(<<>>) = 0
    BY NothingSent, Zenon
<1>5. JoinerInv(cl, {}, {}, <<>>, None)
    BY <1>2, Zenon DEF JoinerInv
<1>6. RunsSent({}, 0, {}, <<>>) /\ Reported(<<>>, 0) /\ AskedOnce(<<>>, 0)
      /\ AnswersRelayed({}, 0, <<>>) /\ SenderKnown({}, 1, 0)
    BY <1>4 DEF RunsSent, Reported, InOrder, AskedOnce, AnswersRelayed, SenderKnown
<1>7. Books(net, wire, cl.me, runs, published, asked, relayed, linked)
    BY <1>1, <1>2, <1>6 DEF Books
<1>8. Distinct({})
    BY Zenon DEF Distinct
<1>9. /\ cl.me \in Nat \ {0} /\ (\A i \in 1..cl.me : Distinct(By(wire, <<"client", i>>)))
      /\ JoinerInv(cl, By(wire, <<"client", cl.me>>), linked, published, verdict)
    <2>1. \A name : By(wire, name) = {}
        BY <1>1, <1>3
    <2>2. cl.me \in Nat \ {0}
        BY <1>2
    <2>3. QED
        BY <1>1, <1>5, <1>8, <2>1, <2>2, Zenon
<1>10. QED
    BY <1>1, <1>7, <1>9 DEF RelayInv, RelayState

\* Every step keeps the inductive invariant, and no step is one of a session
\* that is too old.
LEMMA RelayNext == RelayInv /\ [Next]_vars => RelayInv' /\ Retired
<1> SUFFICES ASSUME RelayInv, [Next]_vars PROVE RelayInv' /\ Retired
    BY Zenon
<1>1. CASE UNCHANGED vars
    <2>1. UNCHANGED <<net, wire, cl, verdict, handler, session, open, runs, published, asked,
                      relayed, linked>>
        BY <1>1 DEF vars, commissioner
    <2>2. QED
        BY <2>1, NothingNewSent DEF RelayInv
<1>2. ASSUME NEW again \in BOOLEAN, NEW failing \in BOOLEAN, RelayReceives(again, failing)
      PROVE  RelayInv' /\ Retired
    BY <1>2, RelayRxKeeps DEF RelayReceives
<1>3. ASSUME NEW h \in Handlers \cup {None}, SetJoinerHandler(h) \/ EndSession \/ Age
      PROVE  RelayInv' /\ Retired
    BY <1>3, CommandKeeps
<1>4. None \in Handlers \cup {None}
    BY Zenon
<1>5. ASSUME NEW again \in BOOLEAN, JoinerReceives(again) PROVE RelayInv' /\ Retired
    BY <1>5, JoinerReceivesKeeps
<1>6. ASSUME NEW body, JoinerSends(body) PROVE RelayInv' /\ Retired
    BY <1>6, JoinerSendsKeeps
<1>7. QED
    BY <1>1, <1>2, <1>3, <1>4, <1>5, <1>6, JoinerConnectsKeeps, JoinerTimeoutKeeps,
       JoinerAlertsKeeps, QuietStepKeeps, Zenon DEF Next

\* The inductive invariant holds throughout.
LEMMA RelayInvHolds == Spec => []RelayInv
<1>1. RelayInv /\ [Next]_vars => RelayInv'
    BY RelayNext
<1>2. QED
    BY <1>1, RelayStarts, PTL DEF Spec

\* Neither the joiner nor any session of the commissioner ever seals two
\* different records under one number: not by sending a Finished flight again
\* for a repeated Finished, not by answering a repeated JOIN_FIN.req.
THEOREM RelayedNumbersFreshHolds == Spec => []RelayedNumbersFresh
<1>1. RelayInv => RelayedNumbersFresh
    <2> SUFFICES ASSUME RelayInv, NEW x \in wire, NEW y \in wire, x[1] = y[1],
                        x[2].epoch = 1, y[2].epoch = 1, x[2].seq = y[2].seq
                 PROVE  x = y
        BY Zenon DEF RelayedNumbersFresh
    <2>1. /\ SenderKnown(wire, cl.me, runs) /\ RunsSent(wire, runs, linked, published)
          /\ (\A i \in 1..cl.me : Distinct(By(wire, <<"client", i>>)))
        BY Zenon DEF RelayInv, RelayState, Books
    <2>2. /\ x = <<x[1], x[2]>> /\ y = <<y[1], y[2]>>
          /\ (\E i \in 1..cl.me : x[1] = <<"client", i>>) \/ (\E j \in 1..runs : x[1] = Of(j))
        BY <2>1, Zenon DEF SenderKnown
    <2>3. x[2] \in By(wire, x[1]) /\ y[2] \in By(wire, x[1])
        BY Zenon DEF By
    <2>4. CASE \E i \in 1..cl.me : x[1] = <<"client", i>>
        <3>1. Distinct(By(wire, x[1]))
            BY <2>1, <2>4
        <3>2. x[2] = y[2]
            BY <2>3, <3>1 DEF Distinct
        <3>3. QED
            BY <2>2, <3>2
    <2>5. CASE \E j \in 1..runs : x[1] = Of(j)
        <3>1. PICK j \in 1..runs : x[1] = Of(j)
            BY <2>5
        <3>2. RunSent(By(wire, x[1]), j, linked, Told(published, j))
            BY <2>1, <3>1, Zenon DEF RunsSent
        <3>3. x[2] = y[2]
            BY <2>3, <3>2, Zenon DEF RunSent
        <3>4. QED
            BY <2>2, <3>3
    <2>6. QED
        BY <2>2, <2>4, <2>5
<1>2. QED
    BY <1>1, RelayInvHolds, PTL

\* Of each session the application hears JoinerConnected and JoinerFinalized
\* at most once and in this order, and its handler decides at most once.
THEOREM EventsInOrderHolds == Spec => []EventsInOrder
<1>1. RelayInv => EventsInOrder
    <2>1. RelayInv => InOrder(published) /\ AskedOnce(asked, runs)
        BY Zenon DEF RelayInv, RelayState, Books, Reported
    <2>2. QED
        BY <2>1, Zenon DEF EventsInOrder, InOrder, Before, Expected, AskedOnce
<1>2. QED
    BY <1>1, RelayInvHolds, PTL

\* The Joiner Router KEK is relayed exactly with the answers that accept, and
\* every answer says what the application was told, whatever became of the
\* handler since.
THEOREM KekOnlyIfAcceptedHolds == Spec => []KekOnlyIfAccepted
<1>1. RelayInv => KekOnlyIfAccepted
    <2>1. RelayInv => AnswersRelayed(relayed, runs, published)
        BY Zenon DEF RelayInv, RelayState, Books
    <2>2. \A run : Decisions(run) = Told(published, run)
        BY DEF Decisions, Told
    <2>3. QED
        BY <2>1, <2>2 DEF KekOnlyIfAccepted, AnswersRelayed
<1>2. QED
    BY <1>1, RelayInvHolds, PTL

\* What the joiner is told was decided in a session that has the joiner's own
\* key and transcript, and the application was told the same.
THEOREM JoinerToldByItsSessionHolds == Spec => []JoinerToldByItsSession
<1>1. RelayInv => JoinerToldByItsSession
    <2> SUFFICES ASSUME RelayInv, verdict # None
                 PROVE  /\ \E l \in linked : l.key = cl.key /\ l.transcript = cl.transcript
                        /\ Decisions(cl.key[3]) = {verdict}
        BY Zenon DEF JoinerToldByItsSession
    <2>1. Link(cl) \in linked /\ Told(published, cl.key[3]) = {verdict}
        BY Zenon DEF RelayInv, RelayState, JoinerInv
    <2>2. Link(cl).key = cl.key /\ Link(cl).transcript = cl.transcript
        BY Zenon DEF Link
    <2>3. Decisions(cl.key[3]) = Told(published, cl.key[3])
        BY Zenon DEF Decisions, Told
    <2>4. QED
        BY <2>1, <2>2, <2>3
<1>2. QED
    BY <1>1, RelayInvHolds, PTL

\* No session is left without a handler or without the commissioner's own
\* session, and a session that is too old sends nothing more.
THEOREM SessionsRetiredHolds == Spec => SessionsRetired
<1> DEFINE A == /\ (handler' = None \/ ~open') => session' = None
                /\ session # None /\ session.expired =>
                        \A x \in wire' \ wire : x[1] # RunOf(session)
<1>1. RelayInv /\ [Next]_vars => A
    <2> SUFFICES ASSUME RelayInv, [Next]_vars PROVE A
        BY Zenon
    <2>1. RelayInv' /\ Retired
        BY RelayNext
    <2>2. (handler' = None \/ ~open') => session' = None
        BY <2>1 DEF RelayInv, RelayState
    <2>3. QED
        BY <2>1, <2>2 DEF Retired
<1>2. SessionsRetired <=> [][A]_vars
    BY DEF SessionsRetired
<1>3. RelayInv /\ [Next]_vars => [A]_vars
    BY <1>1
<1> HIDE DEF A
<1>4. Spec => [][A]_vars
    BY <1>3, RelayInvHolds, PTL DEF Spec
<1>5. QED
    BY <1>2, <1>4, PTL
=============================================================================
