------------------------- MODULE DtlsHandshakeProofs -------------------------
(***************************************************************************)
(* The two drivers together, whatever the network does.  The numbers of    *)
(* the server's records rest on the client: the server copies the number   *)
(* of the ClientHello it answers, and what keeps its HelloVerifyRequests   *)
(* clear of its flight is that the cookies in the client's ClientHellos    *)
(* only ever become newer.                                                 *)
(***************************************************************************)
EXTENDS DtlsHandshake, DtlsClientProofs

-----------------------------------------------------------------------------
(* The inductive invariant *)

\* A server's Finished belongs to a session that the server has opened.
Opened(m, A) == [key |-> Body(m)[2], transcript |-> Append(Body(m)[3], m)] \in A

\* What the run-th accept has put on the wire, the client having sent C.
Served(S, run, C, A) ==
    /\ Distinct(S)
    /\ \A r \in S : HelloVerify(r) => \E z \in C : Answers(r, z, run)
    /\ \A r \in S : r.epoch = 1 /\ r.content = "handshake" => Opened(r.message, A)

ServerFields ==
    {"run", "secret", "phase", "next0", "next1", "used", "hello", "flight", "ccs", "cke",
     "key", "transcript", "finished", "seen"}

IsServer(v) == v = [f \in ServerFields |-> v[f]]

\* The server and the records S of its latest accept.
ServerInv(v, S, A) ==
    /\ IsServer(v)
    /\ v.run \in Nat
    /\ v.next0 \in Nat
    /\ v.next1 \in Nat
    /\ v.phase = "Cookie" => v.key = None /\ \A r \in S : HelloVerify(r)
    /\ v.phase \in {"Cookie", "ClientFinished"} => v.next1 = 0 /\ \A r \in S : r.epoch = 0
    /\ v.phase \in {"ClientFinished", "Done"} => \A r \in S : Numbered(r, v.next0, v.next1)
    /\ v.phase = "ClientFinished" =>
            /\ Len(v.flight) = 3
            /\ \A i \in 1..3 :
                  /\ v.flight[i] = PlainHandshake(v.flight[i].seq, v.flight[i].message)
                  /\ v.flight[i].message.type # "HelloVerifyRequest"
    /\ v.key # None => v.key[1] = v.secret /\ v.key[3] = v.run
    /\ v.phase = "Done" /\ v.finished # None => Opened(v.finished, A)
    /\ \A a \in A : /\ a.key[3] \in Nat
                    /\ a.key[3] <= v.run
                    /\ a.key[3] = v.run => v.phase = "Done"

\* A datagram under way carries records that its sender has put on the wire.
Delivered(d, w) ==
    /\ Len(d.records) \in Nat
    /\ \A i \in 1..Len(d.records) : d.records[i] \in By(w, d.from)

NetworkInv(n, w, me, runs) ==
    /\ \A x \in w : \/ x[1] = <<"client", me>>
                    \/ \E j \in 1..runs : x[1] = <<"server", j>>
    /\ \A d \in n :
          /\ d = Datagram(d.to, d.from, d.records)
          /\ Delivered(d, w)
          /\ d.to = "server" => d.from = <<"client", me>>
          /\ d.to = "client" => \E j \in 1..runs : d.from = <<"server", j>>

\* The invariant of a client in state c and a server in state v, with the
\* datagrams n under way, the records w sent and the sessions A opened.
HandshakeInv(c, v, n, w, A) ==
    LET C == By(w, <<"client", 1>>)
        S(j) == By(w, <<"server", j>>)
    IN  /\ c.me = 1
        /\ v.run \in 1..MaxAccepts
        /\ ClientInv(c, C)
        /\ HelloInv(c, C, v.run)
        /\ \A j \in 1..v.run : Served(S(j), j, C, A)
        /\ ServerInv(v, S(v.run), A)
        /\ NetworkInv(n, w, 1, v.run)

Inv == HandshakeInv(cl, sv, net, wire, accepted)
-----------------------------------------------------------------------------
(* The server and the records it sends *)

\* Handlers that send nothing.
LEMMA ServerKept ==
    ASSUME NEW v, NEW S, NEW A, ServerInv(v, S, A), NEW d, IsServer(d),
           \A f \in {"run", "secret", "next0", "next1", "flight"} : d[f] = v[f],
           d.phase = "Cookie" => d.key = v.key,
           d.key # None => d.key[1] = d.secret /\ d.key[3] = d.run,
           d.finished \in {v.finished, None},
           \/ d.phase = v.phase
           \/ v.phase \in {"Cookie", "ClientFinished"} /\ d.phase \in {"Failed", "TimedOut"}
    PROVE  ServerInv(d, S, A)
<1>1. /\ d.run = v.run /\ d.secret = v.secret /\ d.next0 = v.next0 /\ d.next1 = v.next1
      /\ d.flight = v.flight
    BY Zenon
<1>2. CASE d.phase = v.phase
    BY <1>1, <1>2 DEF ServerInv
<1>3. CASE v.phase \in {"Cookie", "ClientFinished"} /\ d.phase \in {"Failed", "TimedOut"}
    BY <1>1, <1>3, Zenon DEF ServerInv
<1>4. QED
    BY <1>2, <1>3, Zenon

\* The sessions the server has opened once it is in state d.
OpenedBy(v, d, A) ==
    IF v.phase # "Done" /\ d.phase = "Done" THEN A \cup {SessionOf(d)} ELSE A

\* The handler's progress through a datagram that found the server in state v;
\* S are the records that this accept had sent before, C those of the client.
ServerFold(v, s, S, C, A) ==
    /\ IsStep(s)
    /\ ServerInv(s.state, S \cup Sent(s.out), OpenedBy(v, s.state, A))
    /\ Served(S \cup Sent(s.out), v.run, C, OpenedBy(v, s.state, A))
    /\ s.state.run = v.run
    /\ s.state.secret = v.secret
    /\ ~s.stop => s.state.phase = v.phase
    /\ v.phase # "Done" /\ s.state.phase = "Done" =>
            v.secret = ClientSecret /\ s.state.key[3] = v.run

\* A HelloVerifyRequest has the number of the ClientHello that it answers, and
\* no other answer of this accept has that number.
LEMMA CookieAnswered ==
    ASSUME NEW c, NEW C, NEW v, NEW S, NEW A, ServerInv(v, S, A), Served(S, v.run, C, A),
           Distinct(C), HelloInv(c, C, v.run), v.phase = "Cookie",
           NEW z \in C, Hello(z), CookieOf(z.message) # Cookie(v.run, Body(z.message).random)
    PROVE  LET h == PlainHandshake(z.seq, HelloVerifyRequest(z.message.seq,
                                            Cookie(v.run, Body(z.message).random)))
           IN  ServerInv(v, S \cup {h}, A) /\ Served(S \cup {h}, v.run, C, A)
<1> DEFINE h == PlainHandshake(z.seq, HelloVerifyRequest(z.message.seq,
                                            Cookie(v.run, Body(z.message).random)))
<1>1. AcceptOf(CookieOf(z.message)) <= v.run
    <2>1. PICK k \in Cookies(c.me, v.run) : z.message = ClientHello(z.message.seq, c.me, k)
        BY Zenon DEF HelloInv
    <2>2. v.run \in Nat /\ CookieOf(z.message) = k
        BY <2>1, HelloBody DEF ServerInv
    <2>3. QED
        BY <2>2, CookieRuns
<1>2. Answers(h, z, v.run)
    BY <1>1, Zenon DEF Answers
<1>3. h.epoch = 0 /\ h.seq = z.seq /\ h.content = "handshake" /\ HelloVerify(h)
    BY Zenon DEF PlainHandshake, Record, HelloVerifyRequest, Message, HelloVerify, PlainMessage
<1>4. ASSUME NEW x \in S, x.epoch = h.epoch, x.seq = h.seq PROVE x = h
    <2>1. HelloVerify(x)
        BY Zenon DEF ServerInv
    <2>2. PICK y \in C : Answers(x, y, v.run)
        BY <2>1, Zenon DEF Served
    <2>3. x.seq = y.seq
        BY <2>2, Zenon DEF Answers, PlainHandshake, Record
    <2>4. y = z
        BY <1>3, <1>4, <2>2, <2>3 DEF Distinct, Answers, Hello, PlainMessage
    <2>5. QED
        BY <2>2, <2>4, Zenon DEF Answers
<1> HIDE DEF h
<1>5. Distinct(S \cup {h})
    BY <1>4, Zenon DEF Served, Distinct
<1>6. Served(S \cup {h}, v.run, C, A)
    BY <1>2, <1>3, <1>5 DEF Served
<1>7. ServerInv(v, S \cup {h}, A)
    BY <1>3, Zenon DEF ServerInv
<1>8. QED
    BY <1>6, <1>7, Zenon DEF h

\* The ClientHello with the cookie has a number past all those that this
\* accept answered before.
LEMMA CookieLast ==
    ASSUME NEW c, NEW C, NEW v, NEW S, NEW A, ServerInv(v, S, A), Served(S, v.run, C, A),
           HelloInv(c, C, v.run), v.phase = "Cookie", Cookie(v.run, c.me) # None,
           NEW r \in C, Hello(r), CookieOf(r.message) = Cookie(v.run, Body(r.message).random),
           NEW x \in S
    PROVE  x.epoch = 0 /\ x.seq \in Nat /\ r.seq \in Nat /\ x.seq < r.seq
<1>1. v.run \in Nat
    BY Zenon DEF ServerInv
<1>2. PICK k \in Cookies(c.me, v.run) : r.message = ClientHello(r.message.seq, c.me, k)
    BY Zenon DEF HelloInv
<1>3. CookieOf(r.message) = Cookie(v.run, c.me) /\ Body(r.message).random = c.me
    BY <1>2, HelloBody
<1>4. AcceptOf(CookieOf(r.message)) = v.run
    BY <1>3 DEF AcceptOf, Cookie
<1>5. HelloVerify(x) /\ x.epoch = 0
    BY Zenon DEF ServerInv
<1>6. PICK z \in C : Answers(x, z, v.run)
    BY <1>5, Zenon DEF Served
<1>7. x.seq = z.seq /\ Hello(z)
    BY <1>6, Zenon DEF Answers, PlainHandshake, Record
<1>8. PICK q \in Cookies(c.me, v.run) : z.message = ClientHello(z.message.seq, c.me, q)
    BY <1>7, Zenon DEF HelloInv
<1>9. CookieOf(z.message) = q /\ Body(z.message).random = c.me
    BY <1>8, HelloBody
<1>10. r.seq \in Nat /\ z.seq \in Nat
    BY <1>7, Zenon DEF HelloInv
<1>11. ASSUME r.seq <= z.seq PROVE FALSE
    <2>1. AcceptOf(CookieOf(r.message)) <= AcceptOf(CookieOf(z.message))
        BY <1>7, <1>11, Zenon DEF HelloInv
    <2>2. AcceptOf(q) \in 0..v.run /\ v.run <= AcceptOf(q)
        BY <1>1, <1>4, <1>9, <2>1, CookieRuns
    <2>3. AcceptOf(q) = v.run /\ q # Cookie(v.run, c.me)
        BY <1>1, <1>6, <1>9, <2>2 DEF Answers
    <2>4. CASE q = None
        <3>1. v.run = 0
            BY <2>3, <2>4, Zenon DEF AcceptOf
        <3>2. k = Cookie(v.run, c.me)
            BY <1>2, <1>3, HelloBody
        <3>3. k = None
            BY <1>2, <3>1 DEF Cookies
        <3>4. QED
            BY <3>2, <3>3, Zenon
    <2>5. CASE q # None
        <3>1. PICK i \in 1..v.run : q = Cookie(i, c.me)
            BY <2>5, Zenon DEF Cookies
        <3>2. AcceptOf(q) = i
            BY <2>5, <3>1, Zenon DEF AcceptOf, Cookie
        <3>3. QED
            BY <2>3, <3>1, <3>2
    <2>6. QED
        BY <2>4, <2>5, Zenon
<1>12. QED
    BY <1>5, <1>7, <1>10, <1>11

\* The counters n0 and n1 have passed the numbers of all records of S.
Within(S, n0, n1) == \A r \in S : Numbered(r, n0, n1)

\* Records, none of them a HelloVerifyRequest, with numbers that the counters
\* n0 and n1 have not passed and m0 and m1 have.
Ahead(F, n0, n1, m0, m1) ==
    /\ n0 \in Nat /\ n1 \in Nat /\ m0 \in Nat /\ m1 \in Nat /\ n0 <= m0 /\ n1 <= m1
    /\ Distinct(F)
    /\ \A r \in F : /\ Numbered(r, m0, m1)
                    /\ r.epoch = 0 => n0 <= r.seq
                    /\ r.epoch = 1 => n1 <= r.seq
                    /\ ~HelloVerify(r)

\* The server's Finished messages in F belong to sessions of A.
FinishedIn(F, A) ==
    \A r \in F : r.epoch = 1 /\ r.content = "handshake" => Opened(r.message, A)

\* The server sends records that are numbered ahead of all before them.
LEMMA ServedMore ==
    ASSUME NEW S, NEW run, NEW C, NEW A, Served(S, run, C, A), NEW n0, NEW n1, NEW m0, NEW m1,
           Within(S, n0, n1), NEW F, Ahead(F, n0, n1, m0, m1), NEW A2, A \subseteq A2,
           FinishedIn(F, A2)
    PROVE  Served(S \cup F, run, C, A2) /\ Within(S \cup F, m0, m1)
<1>1. Distinct(S \cup F) /\ \A r \in S \cup F : Numbered(r, m0, m1)
    <2>1. /\ Distinct(S) /\ \A r \in S : Numbered(r, n0, n1)
          /\ n0 \in Nat /\ n1 \in Nat /\ m0 \in Nat /\ m1 \in Nat /\ n0 <= m0 /\ n1 <= m1
          /\ Distinct(F) /\ \A r \in F : Numbered(r, m0, m1)
          /\ \A r \in F : r.epoch = 0 => n0 <= r.seq
          /\ \A r \in F : r.epoch = 1 => n1 <= r.seq
        BY Zenon DEF Served, Within, Ahead
    <2>2. QED
        BY <2>1, FreshFlight
<1>2. \A r \in S : r.epoch = 1 /\ r.content = "handshake" => Opened(r.message, A2)
    BY Zenon DEF Served, Opened
<1>3. QED
    BY <1>1, <1>2, Zenon DEF Served, Within, Ahead, FinishedIn

\* Three plaintext messages with consecutive numbers.
LEMMA ThreePlain ==
    ASSUME NEW n \in Nat, NEW messages,
           \A i \in 1..3 : messages[i].type # "HelloVerifyRequest"
    PROVE  LET flight == [i \in 1..3 |-> PlainHandshake(n + i - 1, messages[i])]
           IN  /\ Len(flight) = 3
               /\ Distinct(Elements(flight))
               /\ \A r \in Elements(flight) : /\ Numbered(r, n + 3, 0)
                                              /\ r.epoch = 0
                                              /\ n <= r.seq
                                              /\ ~HelloVerify(r)
               /\ \A i \in 1..3 :
                    /\ flight[i] = PlainHandshake(flight[i].seq, flight[i].message)
                    /\ flight[i].message.type # "HelloVerifyRequest"
<1> DEFINE flight == [i \in 1..3 |-> PlainHandshake(n + i - 1, messages[i])]
<1>1. Len(flight) = 3
    OBVIOUS
<1>2. ASSUME NEW i \in 1..3
      PROVE  /\ flight[i].epoch = 0 /\ flight[i].seq = n + i - 1
             /\ flight[i].message = messages[i]
             /\ flight[i] = PlainHandshake(flight[i].seq, flight[i].message)
    BY Zenon DEF PlainHandshake, Record
<1>3. Elements(flight) = {flight[i] : i \in 1..3}
    BY <1>1, Zenon DEF Elements
<1> HIDE DEF flight
<1>4. Distinct(Elements(flight))
    <2> SUFFICES ASSUME NEW i \in 1..3, NEW j \in 1..3, flight[i].seq = flight[j].seq
                 PROVE  i = j
        BY <1>3 DEF Distinct
    <2>1. n + i - 1 = n + j - 1
        BY <1>2, Zenon
    <2>2. QED
        BY <2>1
<1>5. ASSUME NEW i \in 1..3
      PROVE  /\ Numbered(flight[i], n + 3, 0) /\ n <= flight[i].seq /\ ~HelloVerify(flight[i])
    BY <1>2 DEF Numbered, HelloVerify
<1>6. QED
    BY <1>1, <1>2, <1>3, <1>4, <1>5 DEF flight

\* The server takes the ClientHello with its cookie.
LEMMA HelloAccepted ==
    ASSUME NEW c, NEW C, NEW v, NEW s, NEW S, NEW A, ServerFold(v, s, S, C, A), ~s.stop,
           v.phase = "Cookie", HelloInv(c, C, v.run), Cookie(v.run, c.me) # None,
           NEW r \in C, Hello(r), CookieOf(r.message) = Cookie(v.run, Body(r.message).random)
    PROVE  ServerFold(v, AcceptClientHello(s, r), S, C, A)
<1> DEFINE y == AcceptClientHello(s, r)
           d == s.state
           e == y.state
           m == r.message
           messages == <<ServerHello(m.seq, d.run),
                         ServerKeyExchange(m.seq + 1, d.run, Body(m).random),
                         ServerHelloDone(m.seq + 2)>>
           flight == [i \in 1..3 |-> PlainHandshake(r.seq + i - 1, messages[i])]
           S0 == S \cup Sent(s.out)
<1>1. /\ d.phase = "Cookie" /\ IsStep(s) /\ IsServer(d) /\ d.run = v.run
      /\ d.secret = v.secret
      /\ ServerInv(d, S0, A) /\ Served(S0, d.run, C, A)
    BY Zenon DEF ServerFold, ServerInv, OpenedBy
<1>2. /\ y = [f \in {"state", "out", "stop"} |-> y[f]]
      /\ y.stop /\ y.out = Append(s.out, flight)
      /\ IsServer(e) /\ e.phase = "ClientFinished" /\ e.next0 = r.seq + 3 /\ e.flight = flight
      /\ \A f \in {"run", "secret", "next1", "key", "finished"} : e[f] = d[f]
    BY <1>1, Zenon DEF AcceptClientHello, IsStep, IsServer, ServerFields
<1>3. r.seq \in Nat
    BY Zenon DEF HelloInv
<1>4. \A i \in 1..3 : messages[i].type # "HelloVerifyRequest"
    <2>1. /\ messages[1].type = "ServerHello" /\ messages[2].type = "ServerKeyExchange"
          /\ messages[3].type = "ServerHelloDone"
        BY Zenon DEF ServerHello, ServerKeyExchange, ServerHelloDone, Message
    <2> HIDE DEF messages
    <2>2. QED
        BY <2>1
<1> HIDE DEF y, messages
<1>5. /\ Len(flight) = 3
      /\ Distinct(Elements(flight))
      /\ \A x \in Elements(flight) : /\ Numbered(x, r.seq + 3, 0) /\ x.epoch = 0
                                     /\ r.seq <= x.seq /\ ~HelloVerify(x)
      /\ \A i \in 1..3 : /\ flight[i] = PlainHandshake(flight[i].seq, flight[i].message)
                         /\ flight[i].message.type # "HelloVerifyRequest"
    BY <1>3, <1>4, ThreePlain
<1> HIDE DEF flight
<1>6. Flights(y.out) /\ S \cup Sent(y.out) = S0 \cup Elements(flight)
    <2>1. Flights(s.out)
        BY <1>1, Zenon DEF IsStep
    <2>2. Flights(Append(s.out, flight))
          /\ Sent(Append(s.out, flight)) = Sent(s.out) \cup Elements(flight)
        BY <1>5, <2>1, SentAppend
    <2>3. QED
        BY <1>2, <2>2, Zenon
<1> HIDE DEF d, e, S0
<1>7. \A x \in S0 : Numbered(x, r.seq, 0) /\ x.epoch = 0
    <2>1. ASSUME NEW x \in S0 PROVE x.epoch = 0 /\ x.seq \in Nat /\ x.seq < r.seq
        BY <1>1, CookieLast
    <2>2. QED
        BY <2>1 DEF Numbered
<1>8. /\ Served(S0 \cup Elements(flight), d.run, C, A)
      /\ \A x \in S0 \cup Elements(flight) : Numbered(x, r.seq + 3, 0)
    <2>1. r.seq + 3 \in Nat /\ r.seq <= r.seq + 3
        BY <1>3
    <2> DEFINE F == Elements(flight)
               run == d.run
               n == r.seq
               k == r.seq + 3
    <2>2. Ahead(F, n, 0, k, 0)
        BY <1>3, <1>5, <2>1 DEF Ahead
    <2>3. FinishedIn(F, A) /\ Within(S0, n, 0) /\ Served(S0, run, C, A)
        BY <1>1, <1>5, <1>7 DEF FinishedIn, Within
    <2> HIDE DEF F, run, n, k
    <2>4. Served(S0 \cup F, run, C, A) /\ Within(S0 \cup F, k, 0)
        BY <2>2, <2>3, ServedMore
    <2>5. QED
        BY <2>4, Zenon DEF F, run, k, Within
<1>9. ServerInv(e, S0 \cup Elements(flight), A)
    <2>1. /\ e.run = d.run /\ e.secret = d.secret /\ e.next1 = d.next1 /\ e.key = d.key
          /\ d.next1 = 0 /\ e.next0 \in Nat
        BY <1>1, <1>2, <1>3 DEF ServerInv
    <2>2. \A x \in S0 \cup Elements(flight) : x.epoch = 0
        BY <1>5, <1>7, Zenon
    <2>3. QED
        BY <1>1, <1>2, <1>5, <1>8, <2>1, <2>2 DEF ServerInv
<1>10. OpenedBy(v, e, A) = A
    BY <1>2, Zenon DEF OpenedBy
<1>11. QED
    BY <1>1, <1>2, <1>6, <1>8, <1>9, <1>10, Zenon DEF ServerFold, IsStep, e, y

\* A step sends one more flight, or one more record.
LEMMA FlightAdded ==
    ASSUME NEW s, IsStep(s), NEW flight, Len(flight) \in Nat, NEW S,
           NEW out, out = Append(s.out, flight)
    PROVE  Flights(out) /\ S \cup Sent(out) = (S \cup Sent(s.out)) \cup Elements(flight)
<1>1. Flights(s.out)
    BY Zenon DEF IsStep
<1>2. Flights(out) /\ Sent(out) = Sent(s.out) \cup Elements(flight)
    BY <1>1, SentAppend, Zenon
<1>3. QED
    BY <1>2, Zenon

\* One record more, as a datagram of its own.
LEMMA RecordAdded ==
    ASSUME NEW s, IsStep(s), NEW record, NEW S, NEW out, out = Append(s.out, <<record>>)
    PROVE  Flights(out) /\ S \cup Sent(out) = (S \cup Sent(s.out)) \cup {record}
<1>1. Flights(s.out)
    BY Zenon DEF IsStep
<1>2. Flights(out) /\ Sent(out) = Sent(s.out) \cup {record}
    BY <1>1, SentOne, Zenon
<1>3. QED
    BY <1>2, Zenon

\* One record in the cookie loop.
LEMMA CookieHandled ==
    ASSUME NEW c, NEW C, NEW v, NEW s, NEW S, NEW A, ServerFold(v, s, S, C, A), ~s.stop,
           v.phase = "Cookie", Distinct(C), HelloInv(c, C, v.run),
           Cookie(v.run, c.me) # None, NEW r \in C
    PROVE  ServerFold(v, CookieRecord(s, r), S, C, A)
<1> DEFINE d == s.state
           cookie == Cookie(d.run, Body(r.message).random)
           h == PlainHandshake(r.seq, HelloVerifyRequest(r.message.seq, cookie))
           y == [s EXCEPT !.out = Append(@, <<h>>)]
           S0 == S \cup Sent(s.out)
<1>1. /\ d.phase = "Cookie" /\ IsStep(s) /\ d.run = v.run /\ d.secret = v.secret
      /\ ServerInv(d, S0, A) /\ Served(S0, d.run, C, A)
    BY Zenon DEF ServerFold, OpenedBy
<1>2. \/ CookieRecord(s, r) = s
      \/ Hello(r) /\ CookieOf(r.message) = cookie /\ CookieRecord(s, r) = AcceptClientHello(s, r)
      \/ Hello(r) /\ CookieOf(r.message) # cookie /\ CookieRecord(s, r) = y
    BY Zenon DEF CookieRecord, Hello, PlainMessage, CookieOf
<1>3. ASSUME Hello(r), CookieOf(r.message) = cookie
      PROVE  ServerFold(v, AcceptClientHello(s, r), S, C, A)
    BY <1>1, <1>3, HelloAccepted, Zenon
<1>4. ASSUME Hello(r), CookieOf(r.message) # cookie
      PROVE  ServerFold(v, y, S, C, A)
    <2>1. /\ y = [f \in {"state", "out", "stop"} |-> y[f]]
          /\ y.state = d /\ y.stop = s.stop /\ y.out = Append(s.out, <<h>>)
        BY <1>1, Zenon DEF IsStep
    <2>2. ServerInv(d, S0 \cup {h}, A) /\ Served(S0 \cup {h}, d.run, C, A)
        <3> HIDE DEF S0, d
        <3>1. HelloInv(c, C, d.run)
            BY <1>1, Zenon
        <3>2. QED
            BY <1>1, <1>4, <3>1, CookieAnswered
    <2> HIDE DEF h, y
    <2>3. Flights(y.out) /\ S \cup Sent(y.out) = S0 \cup {h}
        BY <1>1, <2>1, RecordAdded
    <2>4. OpenedBy(v, y.state, A) = A
        BY <1>1, <2>1, Zenon DEF OpenedBy
    <2>5. QED
        BY <1>1, <2>1, <2>2, <2>3, <2>4, Zenon DEF ServerFold, IsStep
<1>5. QED
    BY <1>2, <1>3, <1>4

\* A handler that sends nothing.
LEMMA ServerQuiet ==
    ASSUME NEW C, NEW v, NEW s, NEW S, NEW A, ServerFold(v, s, S, C, A), ~s.stop,
           NEW t, IsStep(t), t.out = s.out, IsServer(t.state),
           \A f \in {"run", "secret", "next0", "next1", "flight"} : t.state[f] = s.state[f],
           t.state.phase = "Cookie" => t.state.key = s.state.key,
           t.state.key # None =>
                t.state.key[1] = t.state.secret /\ t.state.key[3] = t.state.run,
           t.state.finished \in {s.state.finished, None},
           \/ t.state.phase = s.state.phase
           \/ /\ t.stop
              /\ v.phase \in {"Cookie", "ClientFinished"}
              /\ t.state.phase \in {"Failed", "TimedOut"}
    PROVE  ServerFold(v, t, S, C, A)
<1> DEFINE d == s.state
           e == t.state
           S0 == S \cup Sent(s.out)
<1>1. /\ d.phase = v.phase /\ d.run = v.run /\ d.secret = v.secret
      /\ ServerInv(d, S0, A) /\ Served(S0, d.run, C, A)
    BY Zenon DEF ServerFold, OpenedBy
<1>2. /\ OpenedBy(v, e, A) = A /\ ~(v.phase # "Done" /\ e.phase = "Done")
    BY <1>1, Zenon DEF OpenedBy
<1>3. ServerInv(e, S0, A)
    BY <1>1, ServerKept, Zenon
<1>4. /\ S \cup Sent(t.out) = S0 /\ e.run = d.run /\ e.secret = d.secret
    BY Zenon
<1>5. QED
    BY <1>1, <1>2, <1>3, <1>4 DEF ServerFold

\* send_fatal_handshake_alert.
LEMMA ServerFails ==
    ASSUME NEW C, NEW v, NEW s, NEW S, NEW A, ServerFold(v, s, S, C, A), ~s.stop,
           v.phase = "ClientFinished"
    PROVE  ServerFold(v, ServerFailsAloud(s), S, C, A)
<1> DEFINE y == ServerFailsAloud(s)
           d == s.state
           e == y.state
           alert == FatalAlert(d.next0)
           S0 == S \cup Sent(s.out)
<1>1. /\ d.phase = "ClientFinished" /\ IsStep(s) /\ IsServer(d) /\ d.run = v.run
      /\ d.secret = v.secret /\ ServerInv(d, S0, A) /\ Served(S0, d.run, C, A)
      /\ d.next0 \in Nat /\ d.next1 \in Nat /\ Within(S0, d.next0, d.next1)
    BY Zenon DEF ServerFold, OpenedBy, ServerInv, Within
<1>2. /\ y = [f \in {"state", "out", "stop"} |-> y[f]]
      /\ y.stop /\ y.out = Append(s.out, <<alert>>)
      /\ IsServer(e) /\ e.phase = "Failed"
      /\ \A f \in {"run", "secret", "next0", "next1", "flight", "key", "finished"} : e[f] = d[f]
    BY <1>1, Zenon DEF ServerFailsAloud, IsStep, IsServer, ServerFields
<1>3. alert.epoch = 0 /\ alert.seq = d.next0 /\ alert.content = "alert"
    BY Zenon DEF FatalAlert, Record
<1> HIDE DEF y, alert
<1>4. Flights(y.out) /\ S \cup Sent(y.out) = S0 \cup {alert}
    BY <1>1, <1>2, RecordAdded
<1> HIDE DEF d, e, S0
<1>5. Served(S0 \cup {alert}, d.run, C, A)
    <2> DEFINE F == {alert}
               n == d.next0 + 1
               run == d.run
    <2>1. Ahead(F, d.next0, d.next1, n, d.next1)
        BY <1>1, <1>3 DEF Ahead, Distinct, Numbered, HelloVerify, PlainMessage
    <2>2. FinishedIn(F, A) /\ A \subseteq A
        BY <1>3, Zenon DEF FinishedIn
    <2> HIDE DEF F, n
    <2>3. Served(S0 \cup F, d.run, C, A)
        BY <1>1, <2>1, <2>2, ServedMore
    <2>4. QED
        BY <2>3, Zenon DEF F
<1>6. ServerInv(e, S0 \cup {alert}, A)
    <2>1. /\ e.run = d.run /\ e.secret = d.secret /\ e.next0 = d.next0 /\ e.next1 = d.next1
          /\ e.key = d.key
        BY <1>2, Zenon
    <2>2. QED
        BY <1>1, <1>2, <2>1 DEF ServerInv
<1>7. OpenedBy(v, e, A) = A
    BY <1>2, Zenon DEF OpenedBy
<1>8. e.run = d.run /\ e.secret = d.secret
    BY <1>2, Zenon
<1>9. QED
    BY <1>1, <1>2, <1>4, <1>5, <1>6, <1>7, <1>8, Zenon DEF ServerFold, IsStep, e, y

\* build_server_finished_flight.
LEMMA ServerFinishedSent ==
    ASSUME NEW t, IsStep(t), IsServer(t.state), NEW S, NEW run, NEW C, NEW A,
           t.state.next0 \in Nat, t.state.next1 \in Nat,
           Served(S \cup Sent(t.out), run, C, A),
           Within(S \cup Sent(t.out), t.state.next0, t.state.next1),
           NEW A2, A \subseteq A2, Opened(t.state.finished, A2)
    PROVE  LET n == SendServerFinished(t)
           IN  /\ IsStep(n) /\ n.stop = t.stop /\ IsServer(n.state)
               /\ \A f \in ServerFields \ {"next0", "next1"} : n.state[f] = t.state[f]
               /\ n.state.next0 \in Nat /\ n.state.next1 \in Nat
               /\ Served(S \cup Sent(n.out), run, C, A2)
               /\ Within(S \cup Sent(n.out), n.state.next0, n.state.next1)
<1> DEFINE n == SendServerFinished(t)
           d == t.state
           ccs == ChangeCipherSpec(d.next0)
           sealed == Sealed(d.next1, "handshake", d.key, d.finished)
           flight == <<ccs, sealed>>
           F == Elements(flight)
           S0 == S \cup Sent(t.out)
<1>1. /\ n = [f \in {"state", "out", "stop"} |-> n[f]]
      /\ n.stop = t.stop /\ n.out = Append(t.out, flight)
    BY Zenon DEF SendServerFinished, IsStep
<1>2. /\ IsServer(n.state)
      /\ n.state.next0 = d.next0 + 1 /\ n.state.next1 = d.next1 + 1
      /\ \A f \in ServerFields \ {"next0", "next1"} : n.state[f] = d[f]
    BY Zenon DEF SendServerFinished, IsStep, IsServer, ServerFields
<1>3. /\ ccs.epoch = 0 /\ ccs.seq = d.next0 /\ ccs.content = "ccs"
      /\ sealed.epoch = 1 /\ sealed.seq = d.next1 /\ sealed.message = d.finished
    BY Zenon DEF ChangeCipherSpec, Sealed, Record
<1> HIDE DEF n, ccs, sealed
<1>4. Len(flight) \in Nat /\ F = {ccs, sealed}
    BY DEF Elements
<1> HIDE DEF flight, F
<1>5. Flights(n.out) /\ S \cup Sent(n.out) = S0 \cup F
    BY <1>1, <1>4, FlightAdded, Zenon DEF F
<1>6. Ahead(F, d.next0, d.next1, n.state.next0, n.state.next1) /\ FinishedIn(F, A2)
    BY <1>2, <1>3, <1>4 DEF Ahead, FinishedIn, Distinct, Numbered, HelloVerify, PlainMessage
<1>7. /\ Served(S0 \cup F, run, C, A2)
      /\ Within(S0 \cup F, n.state.next0, n.state.next1)
    BY <1>6, ServedMore, Zenon
<1>8. n.state.next0 \in Nat /\ n.state.next1 \in Nat
    BY <1>2
<1>9. QED
    BY <1>1, <1>2, <1>5, <1>7, <1>8, Zenon DEF IsStep, n

\* The client's Finished opens the session.
LEMMA SessionOpened ==
    ASSUME NEW C, NEW v, NEW s, NEW S, NEW A, ServerFold(v, s, S, C, A), ~s.stop,
           v.phase = "ClientFinished", \A x \in C : x.epoch = 1 => x.key[1] = ClientSecret,
           NEW r \in C, r.epoch = 1, r.key = s.state.key, s.state.key # None
    PROVE  LET d == s.state
               before == Append(d.transcript, r.message)
               finished == Finished(d.hello.seq + 3, "server", d.key, before)
               t == [s EXCEPT !.state = [d EXCEPT !.phase = "Done", !.used = 0,
                        !.finished = finished, !.transcript = Append(before, finished)]]
           IN  ServerFold(v, [SendServerFinished(t) EXCEPT !.stop = TRUE], S, C, A)
<1> DEFINE d == s.state
           before == Append(d.transcript, r.message)
           finished == Finished(d.hello.seq + 3, "server", d.key, before)
           t == [s EXCEPT !.state = [d EXCEPT !.phase = "Done", !.used = 0,
                    !.finished = finished, !.transcript = Append(before, finished)]]
           n == SendServerFinished(t)
           e == n.state
           y == [n EXCEPT !.stop = TRUE]
           S0 == S \cup Sent(s.out)
           A2 == A \cup {SessionOf(t.state)}
<1>1. /\ d.phase = "ClientFinished" /\ IsStep(s) /\ IsServer(d) /\ d.run = v.run
      /\ d.secret = v.secret /\ ServerInv(d, S0, A) /\ Served(S0, v.run, C, A)
      /\ d.next0 \in Nat /\ d.next1 \in Nat /\ Within(S0, d.next0, d.next1)
      /\ d.key[1] = d.secret /\ d.key[3] = d.run /\ d.run \in Nat
    BY Zenon DEF ServerFold, OpenedBy, ServerInv, Within
<1>2. Body(finished) = <<"server", d.key, before>>
    BY Zenon DEF Finished, Message, Body
<1>3. v.secret = ClientSecret
    BY <1>1, Zenon
<1> HIDE DEF before, finished
<1>4. /\ IsStep(t) /\ t.out = s.out /\ IsServer(t.state)
      /\ t.state.phase = "Done" /\ t.state.finished = finished
      /\ t.state.transcript = Append(before, finished)
      /\ \A f \in {"run", "secret", "next0", "next1", "key"} : t.state[f] = d[f]
    BY <1>1, Zenon DEF IsStep, IsServer, ServerFields
<1> HIDE DEF t
<1>5. Opened(finished, A2)
    <2>1. SessionOf(t.state) = [key |-> d.key, transcript |-> Append(before, finished)]
        BY <1>4, Zenon DEF SessionOf
    <2>2. Body(finished)[2] = d.key /\ Body(finished)[3] = before
        BY <1>2
    <2>3. QED
        BY <2>1, <2>2, Zenon DEF Opened
<1>6. /\ IsStep(n) /\ IsServer(e)
      /\ \A f \in ServerFields \ {"next0", "next1"} : e[f] = t.state[f]
      /\ e.next0 \in Nat /\ e.next1 \in Nat
      /\ Served(S \cup Sent(n.out), v.run, C, A2)
      /\ Within(S \cup Sent(n.out), e.next0, e.next1)
    <2>1. /\ t.state.next0 = d.next0 /\ t.state.next1 = d.next1 /\ S \cup Sent(t.out) = S0
        BY <1>4, Zenon
    <2>2. /\ t.state.next0 \in Nat /\ t.state.next1 \in Nat
          /\ Served(S \cup Sent(t.out), v.run, C, A)
          /\ Within(S \cup Sent(t.out), t.state.next0, t.state.next1)
          /\ A \subseteq A2 /\ Opened(t.state.finished, A2)
        BY <1>1, <1>4, <1>5, <2>1
    <2> HIDE DEF A2
    <2>3. QED
        BY <1>4, <2>2, ServerFinishedSent, Zenon
<1> HIDE DEF n
<1>7. /\ e.phase = "Done" /\ e.finished = finished /\ e.run = d.run /\ e.secret = d.secret
      /\ e.key = d.key /\ e.transcript = t.state.transcript /\ e.key = t.state.key
    <2>1. \A f \in {"phase", "finished", "run", "secret", "key", "transcript"} :
                e[f] = t.state[f]
        BY <1>6, Zenon DEF ServerFields
    <2>2. QED
        BY <1>4, <2>1, Zenon
<1>8. OpenedBy(v, e, A) = A2
    BY <1>7, Zenon DEF OpenedBy, SessionOf
<1>9. \A a \in A2 : a.key[3] \in Nat /\ a.key[3] <= e.run
    <2>1. \A a \in A : a.key[3] \in Nat /\ a.key[3] <= d.run
        BY <1>1, Zenon DEF ServerInv
    <2>2. SessionOf(t.state).key = d.key
        BY <1>4, Zenon DEF SessionOf
    <2>3. QED
        BY <1>1, <1>7, <2>1, <2>2
<1> HIDE DEF A2
<1>10. ServerInv(e, S \cup Sent(n.out), A2)
    <2> HIDE DEF d, e
    <2>1. QED
        BY <1>1, <1>5, <1>6, <1>7, <1>9, Zenon DEF ServerInv, Within
<1>11. y.state = e /\ y.out = n.out /\ y.stop /\ IsStep(y)
    BY <1>6, Zenon DEF IsStep
<1> HIDE DEF y
<1>12. ServerFold(v, y, S, C, A)
    BY <1>1, <1>3, <1>6, <1>7, <1>8, <1>10, <1>11, Zenon DEF ServerFold
<1>13. QED
    BY <1>12, Zenon DEF y, n, t, finished, before

\* One record while the server waits for the client's Finished.
LEMMA ClientFlightHandled ==
    ASSUME NEW C, NEW v, NEW s, NEW S, NEW A, ServerFold(v, s, S, C, A), ~s.stop,
           v.phase = "ClientFinished", \A x \in C : x.epoch = 1 => x.key[1] = ClientSecret,
           NEW r \in C
    PROVE  ServerFold(v, ClientFlightRecord(s, r), S, C, A)
<1> DEFINE d == s.state
           m == r.message
           key == KeyMaterial(d.secret, Body(d.hello).random, d.run)
           exchanged == [s EXCEPT !.state = [d EXCEPT !.cke = m, !.transcript = Append(@, m),
                                                      !.key = key]]
           ccs == [s EXCEPT !.state.ccs = TRUE]
           failed == [s EXCEPT !.state.phase = "Failed", !.stop = TRUE]
           before == Append(d.transcript, r.message)
           finished == Finished(d.hello.seq + 3, "server", d.key, before)
           t == [s EXCEPT !.state = [d EXCEPT !.phase = "Done", !.used = 0,
                    !.finished = finished, !.transcript = Append(before, finished)]]
           done == [SendServerFinished(t) EXCEPT !.stop = TRUE]
<1>1. /\ d.phase = "ClientFinished" /\ IsStep(s) /\ IsServer(d)
      /\ d.key # None => d.key[1] = d.secret /\ d.key[3] = d.run
    BY Zenon DEF ServerFold, ServerInv
<1>2. \/ ClientFlightRecord(s, r) \in {s, exchanged, ccs, failed, ServerFailsAloud(s)}
      \/ /\ r.epoch = 1 /\ r.key = d.key /\ d.key # None
         /\ ClientFlightRecord(s, r) = done
    BY DEF ClientFlightRecord, ClientKeyExchangeArrives, ServerFailsQuietly,
           ClientFinishedArrives, Opens
<1>3. ASSUME r.epoch = 1, r.key = d.key, d.key # None
      PROVE  ServerFold(v, done, S, C, A)
    BY <1>3, SessionOpened, Zenon
<1> HIDE DEF done
<1>4. key[1] = d.secret /\ key[3] = d.run
    BY Zenon DEF KeyMaterial
<1> HIDE DEF key
<1>5. /\ IsStep(exchanged) /\ exchanged.out = s.out /\ IsServer(exchanged.state)
      /\ \A f \in {"run", "secret", "next0", "next1", "flight", "finished", "phase"} :
            exchanged.state[f] = d[f]
      /\ exchanged.state.key = key
    BY <1>1, Zenon DEF IsStep, IsServer, ServerFields
<1>6. /\ IsStep(ccs) /\ ccs.out = s.out /\ IsServer(ccs.state)
      /\ \A f \in {"run", "secret", "next0", "next1", "flight", "finished", "phase", "key"} :
            ccs.state[f] = d[f]
    BY <1>1, Zenon DEF IsStep, IsServer, ServerFields
<1>7. /\ IsStep(failed) /\ failed.out = s.out /\ IsServer(failed.state) /\ failed.stop
      /\ failed.state.phase = "Failed"
      /\ \A f \in {"run", "secret", "next0", "next1", "flight", "finished", "key"} :
            failed.state[f] = d[f]
    BY <1>1, Zenon DEF IsStep, IsServer, ServerFields
<1> HIDE DEF exchanged, ccs, failed
<1>8. ServerFold(v, exchanged, S, C, A)
    <2>1. /\ exchanged.state.phase = d.phase /\ exchanged.state.phase # "Cookie"
          /\ exchanged.state.finished = d.finished
          /\ exchanged.state.secret = d.secret /\ exchanged.state.run = d.run
          /\ \A f \in {"run", "secret", "next0", "next1", "flight"} :
                exchanged.state[f] = d[f]
        BY <1>1, <1>5, Zenon
    <2>2. QED
        BY <1>4, <1>5, <2>1, ServerQuiet
<1>9. ServerFold(v, ccs, S, C, A)
    <2>1. /\ ccs.state.phase = d.phase /\ ccs.state.finished = d.finished
          /\ ccs.state.key = d.key
          /\ ccs.state.secret = d.secret /\ ccs.state.run = d.run
          /\ \A f \in {"run", "secret", "next0", "next1", "flight"} : ccs.state[f] = d[f]
        BY <1>6, Zenon
    <2>2. QED
        BY <1>1, <1>6, <2>1, ServerQuiet
<1>10. ServerFold(v, failed, S, C, A)
    <2>1. /\ failed.state.finished = d.finished /\ failed.state.key = d.key
          /\ failed.state.secret = d.secret /\ failed.state.run = d.run
          /\ \A f \in {"run", "secret", "next0", "next1", "flight"} : failed.state[f] = d[f]
        BY <1>7, Zenon
    <2>2. QED
        BY <1>1, <1>7, <2>1, ServerQuiet
<1>11. ServerFold(v, ServerFailsAloud(s), S, C, A)
    BY ServerFails, Zenon
<1>12. QED
    BY <1>2, <1>3, <1>8, <1>9, <1>10, <1>11

\* open_next_record on the session.
LEMMA SessionHandled ==
    ASSUME NEW C, NEW v, NEW s, NEW S, NEW A, ServerFold(v, s, S, C, A), ~s.stop, NEW r
    PROVE  ServerFold(v, SessionRecord(s, r), S, C, A)
<1> DEFINE d == s.state
           t == [s EXCEPT !.state = [s.state EXCEPT !.seen = @ \cup {r.seq}, !.finished = None,
                                              !.used = 0]]
<1>1. /\ IsStep(s) /\ IsServer(d)
      /\ d.key # None => d.key[1] = d.secret /\ d.key[3] = d.run
    BY Zenon DEF ServerFold, ServerInv
<1>2. SessionRecord(s, r) \in {s, t}
    BY Zenon DEF SessionRecord
<1>3. /\ IsStep(t) /\ t.out = s.out /\ IsServer(t.state) /\ t.state.finished = None
      /\ \A f \in {"run", "secret", "next0", "next1", "flight", "phase", "key"} :
            t.state[f] = d[f]
    BY <1>1, Zenon DEF IsStep, IsServer, ServerFields
<1> HIDE DEF t
<1>4. ServerFold(v, t, S, C, A)
    <2>1. /\ t.state.phase = d.phase /\ t.state.key = d.key
          /\ t.state.secret = d.secret /\ t.state.run = d.run
          /\ \A f \in {"run", "secret", "next0", "next1", "flight"} : t.state[f] = d[f]
        BY <1>3, Zenon
    <2>2. QED
        BY <1>1, <1>3, <2>1, ServerQuiet
<1>5. QED
    BY <1>2, <1>4, Zenon

\* A step that has sent nothing yet.
LEMMA ServerStep ==
    ASSUME NEW C, NEW v, NEW S, NEW A, ServerInv(v, S, A), Served(S, v.run, C, A)
    PROVE  ServerFold(v, Step(v), S, C, A)
<1> DEFINE s == Step(v)
<1>1. s.state = v /\ s.out = <<>> /\ s.stop = FALSE
      /\ s = [f \in {"state", "out", "stop"} |-> s[f]]
    BY Zenon DEF Step
<1>2. S \cup Sent(s.out) = S /\ Flights(s.out)
    BY <1>1, NothingSent, Zenon
<1> HIDE DEF s
<1>3. OpenedBy(v, s.state, A) = A
    BY <1>1, Zenon DEF OpenedBy
<1>4. ServerFold(v, s, S, C, A)
    BY <1>1, <1>2, <1>3, Zenon DEF ServerFold, IsStep
<1>5. QED
    BY <1>4, Zenon DEF s

\* take_server_finished_retry.
LEMMA FinishedRetried ==
    ASSUME NEW C, NEW v, NEW S, NEW A, ServerInv(v, S, A), Served(S, v.run, C, A),
           v.phase = "Done", NEW records
    PROVE  ServerFold(v, FinishedRetry(Step(v), records), S, C, A)
<1> DEFINE s == Step(v)
           t == [s EXCEPT !.state.used = @ + 1]
           n == SendServerFinished(t)
           e == n.state
<1>1. ServerFold(v, s, S, C, A) /\ s.state = v /\ s.out = <<>> /\ ~s.stop /\ IsStep(s)
      /\ Sent(s.out) = {}
    BY ServerStep, NothingSent, Zenon DEF Step, ServerFold
<1>2. \/ FinishedRetry(s, records) = s
      \/ v.finished # None /\ FinishedRetry(s, records) = n
    BY <1>1, Zenon DEF FinishedRetry
<1> HIDE DEF s
<1>3. ASSUME v.finished # None PROVE ServerFold(v, n, S, C, A)
    <2>1. /\ IsServer(v) /\ v.next0 \in Nat /\ v.next1 \in Nat /\ Opened(v.finished, A)
          /\ Within(S, v.next0, v.next1)
        BY <1>3, Zenon DEF ServerInv, Within
    <2>2. /\ IsStep(t) /\ t.out = s.out /\ IsServer(t.state) /\ t.stop = s.stop
          /\ \A f \in ServerFields \ {"used"} : t.state[f] = v[f]
        BY <1>1, <2>1, Zenon DEF IsStep, IsServer, ServerFields
    <2> HIDE DEF t
    <2>3. /\ t.state.next0 = v.next0 /\ t.state.next1 = v.next1
          /\ t.state.finished = v.finished /\ S \cup Sent(t.out) = S
        BY <1>1, <2>2, Zenon DEF ServerFields
    <2>4. /\ t.state.next0 \in Nat /\ t.state.next1 \in Nat
          /\ Served(S \cup Sent(t.out), v.run, C, A)
          /\ Within(S \cup Sent(t.out), t.state.next0, t.state.next1)
          /\ A \subseteq A /\ Opened(t.state.finished, A)
        BY <2>1, <2>3, Zenon
    <2>5. /\ IsStep(n) /\ n.stop = t.stop /\ IsServer(e)
          /\ \A f \in ServerFields \ {"next0", "next1"} : e[f] = t.state[f]
          /\ e.next0 \in Nat /\ e.next1 \in Nat
          /\ Served(S \cup Sent(n.out), v.run, C, A)
          /\ Within(S \cup Sent(n.out), e.next0, e.next1)
        BY <2>2, <2>4, ServerFinishedSent, Zenon
    <2> HIDE DEF n
    <2>6. \A f \in {"phase", "finished", "run", "secret", "key"} : e[f] = v[f]
        BY <2>2, <2>5, Zenon DEF ServerFields
    <2> HIDE DEF e
    <2>7. /\ e.phase = v.phase /\ e.finished = v.finished /\ e.run = v.run
          /\ e.secret = v.secret /\ e.key = v.key
        BY <2>6, Zenon
    <2>8. ServerInv(e, S \cup Sent(n.out), A)
        BY <2>5, <2>7, Zenon DEF ServerInv, Within
    <2>9. OpenedBy(v, e, A) = A
        BY Zenon DEF OpenedBy
    <2>10. QED
        BY <1>1, <2>2, <2>5, <2>7, <2>8, <2>9 DEF ServerFold, e
<1>4. QED
    BY <1>1, <1>2, <1>3, Zenon DEF s

\* The server's flight again, with the next numbers.
LEMMA ServerFlightResent ==
    ASSUME NEW C, NEW v, NEW t, NEW S, NEW A, ServerFold(v, t, S, C, A), ~t.stop,
           v.phase = "ClientFinished"
    PROVE  ServerFold(v, ResendServerFlight(t), S, C, A)
<1> DEFINE d == t.state
           y == ResendServerFlight(t)
           e == y.state
           flight == Renumber(d.flight, d.next0)
           messages == [i \in 1..3 |-> d.flight[i].message]
           F == Elements(flight)
           S0 == S \cup Sent(t.out)
<1>1. /\ d.phase = "ClientFinished" /\ IsStep(t) /\ IsServer(d) /\ d.run = v.run
      /\ d.secret = v.secret /\ ServerInv(d, S0, A) /\ Served(S0, v.run, C, A)
      /\ d.next0 \in Nat /\ d.next1 = 0 /\ Within(S0, d.next0, 0)
      /\ Len(d.flight) = 3
      /\ \A i \in 1..3 : /\ d.flight[i] = PlainHandshake(d.flight[i].seq, d.flight[i].message)
                         /\ d.flight[i].message.type # "HelloVerifyRequest"
    BY Zenon DEF ServerFold, OpenedBy, ServerInv, Within
<1>2. \A i \in 1..3 : d.flight[i].epoch = 0
    <2>1. ASSUME NEW n, NEW m PROVE PlainHandshake(n, m).epoch = 0
        BY Zenon DEF PlainHandshake, Record
    <2>2. QED
        BY <1>1, <2>1
<1> HIDE DEF d
<1>3. /\ flight = [i \in 1..3 |-> PlainHandshake(d.next0 + i - 1, d.flight[i].message)]
      /\ EpochZeroCount(flight) = 3
    <2>1. /\ flight = [i \in 1..Len(d.flight) |->
                        PlainHandshake(d.next0 + i - 1, d.flight[i].message)]
          /\ EpochZeroCount(flight) = Len(d.flight)
        <3>1. /\ Len(d.flight) \in Nat
              /\ \A i \in 1..Len(d.flight) : d.flight[i].epoch = 0
                   /\ d.flight[i] = PlainHandshake(d.flight[i].seq, d.flight[i].message)
            BY <1>1, <1>2
        <3>2. d.next0 \in Nat
            BY <1>1, Zenon
        <3>3. QED
            BY <3>1, <3>2, RenumberedFlight, Zenon
    <2>2. QED
        BY <1>1, <2>1, Zenon
<1>4. flight = [i \in 1..3 |-> PlainHandshake(d.next0 + i - 1, messages[i])]
    BY <1>3, Zenon
<1>5. \A i \in 1..3 : messages[i].type # "HelloVerifyRequest"
    BY <1>1, Zenon
<1> HIDE DEF messages, flight
<1>6. /\ Len(flight) = 3 /\ Distinct(F)
      /\ \A x \in F : /\ Numbered(x, d.next0 + 3, 0) /\ x.epoch = 0
                      /\ d.next0 <= x.seq /\ ~HelloVerify(x)
      /\ \A i \in 1..3 : /\ flight[i] = PlainHandshake(flight[i].seq, flight[i].message)
                         /\ flight[i].message.type # "HelloVerifyRequest"
    BY <1>1, <1>4, <1>5, ThreePlain
<1>7. /\ y = [f \in {"state", "out", "stop"} |-> y[f]]
      /\ y.stop = t.stop /\ y.out = Append(t.out, flight)
    BY <1>1, Zenon DEF ResendServerFlight, IsStep, flight, d
<1>8. /\ IsServer(e) /\ e.next0 = d.next0 + 3 /\ e.flight = flight
      /\ \A f \in {"run", "secret", "next1", "key", "finished", "phase"} : e[f] = d[f]
    BY <1>1, <1>3, Zenon DEF ResendServerFlight, IsStep, IsServer, ServerFields, flight, d
<1> HIDE DEF y, e, F, S0
<1>9. Flights(y.out) /\ S \cup Sent(y.out) = S0 \cup F
    BY <1>1, <1>6, <1>7, FlightAdded DEF F, S0
<1>10. Served(S0 \cup F, v.run, C, A) /\ Within(S0 \cup F, e.next0, 0)
    <2>1. Ahead(F, d.next0, 0, e.next0, 0)
        <3>1. d.next0 \in Nat /\ e.next0 = d.next0 + 3 /\ e.next0 \in Nat /\ d.next0 <= e.next0
            BY <1>1, <1>8
        <3>2. \A x \in F : /\ Numbered(x, e.next0, 0) /\ x.epoch = 0 /\ x.epoch # 1
                           /\ d.next0 <= x.seq /\ ~HelloVerify(x)
            BY <1>6, <3>1
        <3>3. QED
            BY <1>6, <3>1, <3>2 DEF Ahead
    <2>2. FinishedIn(F, A) /\ A \subseteq A
        BY <1>6 DEF FinishedIn
    <2>3. QED
        BY <1>1, <2>1, <2>2, ServedMore, Zenon
<1>11. ServerInv(e, S0 \cup F, A)
    <2>1. /\ e.run = d.run /\ e.secret = d.secret /\ e.next1 = d.next1 /\ e.key = d.key
          /\ e.phase = d.phase /\ e.next0 \in Nat
        <3>1. d.next0 \in Nat /\ e.next0 = d.next0 + 3
            BY <1>1, <1>8, Zenon
        <3>2. e.next0 \in Nat
            BY <3>1
        <3>3. QED
            BY <1>8, <3>2, Zenon
    <2>2. \A x \in S0 \cup F : x.epoch = 0
        BY <1>1, <1>6, Zenon DEF ServerInv
    <2>3. QED
        BY <1>1, <1>6, <1>8, <1>10, <2>1, <2>2, Zenon DEF ServerInv, Within
<1>12. /\ e.run = d.run /\ e.secret = d.secret /\ e.phase = v.phase
       /\ OpenedBy(v, e, A) = A
    BY <1>1, <1>8, Zenon DEF OpenedBy
<1>13. QED
    BY <1>1, <1>7, <1>9, <1>10, <1>11, <1>12, Zenon DEF ServerFold, IsStep, e, y

\* A datagram that repeats the accepted ClientHello.
LEMMA ClientHelloAnswered ==
    ASSUME NEW C, NEW v, NEW S, NEW A, ServerInv(v, S, A), Served(S, v.run, C, A),
           v.phase = "ClientFinished", NEW records
    PROVE  ServerFold(v, AnswersClientHello(Step(v), records), S, C, A)
<1> DEFINE s == Step(v)
           t == [s EXCEPT !.state.used = @ + 1]
<1>1. /\ ServerFold(v, s, S, C, A) /\ s.state = v /\ ~s.stop /\ IsStep(s) /\ IsServer(v)
      /\ v.key # None => v.key[1] = v.secret /\ v.key[3] = v.run
    <2>1. ServerFold(v, s, S, C, A)
        BY ServerStep, Zenon
    <2>2. s.state = v /\ ~s.stop
        BY Zenon DEF Step
    <2> HIDE DEF s
    <2>3. QED
        BY <2>1, <2>2, Zenon DEF ServerFold, ServerInv
<1>2. AnswersClientHello(s, records) \in {s, ResendServerFlight(t)}
    BY Zenon DEF AnswersClientHello
<1> HIDE DEF s
<1>3. /\ IsStep(t) /\ t.out = s.out /\ t.stop = s.stop /\ IsServer(t.state)
      /\ \A f \in ServerFields \ {"used"} : t.state[f] = v[f]
    BY <1>1, Zenon DEF IsStep, IsServer, ServerFields
<1> HIDE DEF t
<1>4. ServerFold(v, t, S, C, A)
    <2>1. /\ t.state.phase = v.phase /\ t.state.key = v.key /\ t.state.finished = v.finished
          /\ t.state.secret = v.secret /\ t.state.run = v.run
          /\ \A f \in {"run", "secret", "next0", "next1", "flight"} : t.state[f] = v[f]
        BY <1>3, Zenon DEF ServerFields
    <2>2. QED
        BY <1>1, <1>3, <2>1, ServerQuiet
<1>5. ServerFold(v, ResendServerFlight(t), S, C, A)
    BY <1>1, <1>3, <1>4, ServerFlightResent
<1>6. QED
    BY <1>1, <1>2, <1>5, Zenon DEF s

\* What the server may rely on about the records C of the client in state c.
FromClient(c, C, run) ==
    /\ Distinct(C)
    /\ HelloInv(c, C, run)
    /\ Cookie(run, c.me) # None
    /\ \A x \in C : x.epoch = 1 => x.key[1] = ClientSecret

\* One record of a datagram from the client.
LEMMA ServerRecordHandled ==
    ASSUME NEW c, NEW C, NEW v, NEW s, NEW S, NEW A, ServerFold(v, s, S, C, A),
           FromClient(c, C, v.run), NEW r \in C
    PROVE  ServerFold(v, Unless(s, ServerRecord(v.phase, s, r)), S, C, A)
<1>1. CASE s.stop
    BY <1>1, Zenon DEF Unless
<1>2. CASE ~s.stop
    <2>1. CASE v.phase = "Cookie"
        <3>1. ServerFold(v, CookieRecord(s, r), S, C, A)
            BY <1>2, <2>1, CookieHandled DEF FromClient
        <3>2. QED
            BY <1>2, <2>1, <3>1 DEF Unless, ServerRecord
    <2>2. CASE v.phase = "ClientFinished"
        <3>1. ServerFold(v, ClientFlightRecord(s, r), S, C, A)
            BY <1>2, <2>2, ClientFlightHandled DEF FromClient
        <3>2. QED
            BY <1>2, <2>2, <3>1 DEF Unless, ServerRecord
    <2>3. CASE v.phase = "Done"
        BY <1>2, <2>3, SessionHandled, Zenon DEF Unless, ServerRecord
    <2>4. CASE v.phase \notin {"Cookie", "ClientFinished", "Done"}
        BY <1>2, <2>4, Zenon DEF Unless, ServerRecord
    <2>5. QED
        BY <2>1, <2>2, <2>3, <2>4
<1>3. QED
    BY <1>1, <1>2, Zenon

\* The state in which the server starts on the records of a datagram.
ServerBegun(v, records) ==
    IF v.phase = "Done" THEN FinishedRetry(Step(v), records) ELSE Step(v)

\* after[n]: the server has handled n records.
IsServerTrace(v, records, n, after) ==
    after = [k \in 0..n |->
                IF k = 0 THEN ServerBegun(v, records)
                ELSE Unless(after[k - 1], ServerRecord(v.phase, after[k - 1], records[k]))]

\* The recursive function in ServerDatagram exists, for every number of records.
LEMMA ServerTraceExists ==
    ASSUME NEW v, NEW records, NEW n \in Nat
    PROVE  \E after : IsServerTrace(v, records, n, after)
<1> DEFINE P == {k \in Nat : \E f : IsServerTrace(v, records, k, f)}
<1>1. 0 \in P
    <2>1. IsServerTrace(v, records, 0, [k \in 0..0 |-> ServerBegun(v, records)])
        BY DEF IsServerTrace
    <2>2. QED
        BY <2>1, Zenon
<1>2. ASSUME NEW k \in Nat, k \in P PROVE k + 1 \in P
    <2>1. PICK f : IsServerTrace(v, records, k, f)
        BY <1>2, Zenon
    <2> DEFINE g == [j \in 0..(k + 1) |->
                        IF j <= k THEN f[j]
                        ELSE Unless(f[k], ServerRecord(v.phase, f[k], records[k + 1]))]
    <2>2. ASSUME NEW j \in 0..(k + 1)
          PROVE  g[j] = IF j = 0 THEN ServerBegun(v, records)
                        ELSE Unless(g[j - 1], ServerRecord(v.phase, g[j - 1], records[j]))
        <3>1. CASE j = 0
            BY <2>1, <3>1 DEF IsServerTrace
        <3>2. CASE j # 0 /\ j <= k
            BY <2>1, <3>2 DEF IsServerTrace
        <3>3. CASE j = k + 1
            BY <3>3
        <3>4. QED
            BY <3>1, <3>2, <3>3
    <2>3. IsServerTrace(v, records, k + 1, g)
        <3>1. g = [j \in 0..(k + 1) |-> g[j]]
            BY Zenon
        <3> HIDE DEF g
        <3>2. QED
            BY <2>2, <3>1, Zenon DEF IsServerTrace
    <2>4. QED
        BY <2>3
<1>3. Nat \subseteq P
    <2> HIDE DEF P
    <2>1. QED
        BY <1>1, <1>2, Induction
<1>4. QED
    BY <1>3, Zenon

\* A datagram from the client.
LEMMA ServerHandles ==
    ASSUME NEW c, NEW C, NEW v, NEW S, NEW A, ServerInv(v, S, A), Served(S, v.run, C, A),
           FromClient(c, C, v.run), NEW records, Len(records) \in Nat,
           \A i \in 1..Len(records) : records[i] \in C
    PROVE  ServerFold(v, ServerDatagram(v, records), S, C, A)
<1> DEFINE after[n \in 0..Len(records)] ==
               IF n = 0 THEN ServerBegun(v, records)
               ELSE Unless(after[n - 1], ServerRecord(v.phase, after[n - 1], records[n]))
           repeated == v.phase = "ClientFinished" /\ ContainsMessage(records, v.hello)
<1>1. IsServerTrace(v, records, Len(records), after)
    <2>1. \E f : IsServerTrace(v, records, Len(records), f)
        BY ServerTraceExists, Zenon
    <2>2. QED
        BY <2>1, Zenon DEF IsServerTrace
<1>2. ServerDatagram(v, records) =
        IF repeated THEN AnswersClientHello(Step(v), records) ELSE after[Len(records)]
    BY Zenon DEF ServerDatagram, ServerBegun
<1> HIDE DEF after
<1>3. after[0] = ServerBegun(v, records)
    BY <1>1 DEF IsServerTrace
<1> DEFINE P == {n \in Nat : n <= Len(records) => ServerFold(v, after[n], S, C, A)}
<1>4. 0 \in P
    <2>1. ServerFold(v, ServerBegun(v, records), S, C, A)
        BY ServerStep, FinishedRetried, Zenon DEF ServerBegun
    <2>2. QED
        BY <1>3, <2>1, Zenon
<1>5. ASSUME NEW n \in Nat, n \in P PROVE n + 1 \in P
    <2> SUFFICES ASSUME n + 1 <= Len(records) PROVE ServerFold(v, after[n + 1], S, C, A)
        OBVIOUS
    <2>1. /\ n <= Len(records) /\ n + 1 \in 0..Len(records) /\ n + 1 # 0 /\ (n + 1) - 1 = n
          /\ n + 1 \in 1..Len(records)
        OBVIOUS
    <2>2. after[n + 1] = Unless(after[n], ServerRecord(v.phase, after[n], records[n + 1]))
        BY <1>1, <2>1, Zenon DEF IsServerTrace
    <2>3. ServerFold(v, after[n], S, C, A) /\ records[n + 1] \in C
        BY <1>5, <2>1
    <2>4. ServerFold(v, Unless(after[n], ServerRecord(v.phase, after[n], records[n + 1])), S, C, A)
        BY <2>3, ServerRecordHandled, Zenon
    <2>5. QED
        BY <2>2, <2>4, Zenon
<1>6. Nat \subseteq P
    <2> HIDE DEF P
    <2>1. QED
        BY <1>4, <1>5, Induction
<1>7. ServerFold(v, after[Len(records)], S, C, A)
    <2>1. Len(records) \in P /\ Len(records) <= Len(records)
        BY <1>6
    <2>2. QED
        BY <2>1, Zenon
<1>8. repeated => ServerFold(v, AnswersClientHello(Step(v), records), S, C, A)
    BY ClientHelloAnswered, Zenon
<1> HIDE DEF repeated
<1>9. QED
    BY <1>2, <1>7, <1>8, Zenon

-----------------------------------------------------------------------------
(* The network *)

\* What an endpoint sends keeps the network's invariant.
LEMMA NetworkSends ==
    ASSUME NEW n, NEW w, NEW me, NEW runs, NetworkInv(n, w, me, runs),
           NEW taken, NEW to, NEW from, NEW out, Flights(out),
           \/ to = "server" /\ from = <<"client", me>>
           \/ to = "client" /\ \E j \in 1..runs : from = <<"server", j>>
    PROVE  NetworkInv(NetAfter(n, taken, to, from, out), WireAfter(w, from, out), me, runs)
<1> DEFINE n2 == NetAfter(n, taken, to, from, out)
           w2 == WireAfter(w, from, out)
<1>1. /\ By(w2, from) = By(w, from) \cup Sent(out)
      /\ \A name : name # from => By(w2, name) = By(w, name)
      /\ \A x \in w2 : x \in w \/ x[1] = from
    BY WireGrows, Zenon
<1> HIDE DEF w2
<1>2. \A x \in w2 : \/ x[1] = <<"client", me>>
                    \/ \E j \in 1..runs : x[1] = <<"server", j>>
    BY <1>1, Zenon DEF NetworkInv
<1>3. \A name : By(w, name) \subseteq By(w2, name)
    BY <1>1, Zenon
<1>4. ASSUME NEW d \in n
      PROVE  /\ d = Datagram(d.to, d.from, d.records)
             /\ Delivered(d, w2)
             /\ d.to = "server" => d.from = <<"client", me>>
             /\ d.to = "client" => \E j \in 1..runs : d.from = <<"server", j>>
    BY <1>3, Zenon DEF NetworkInv, Delivered
<1>5. ASSUME NEW i \in 1..Len(out)
      PROVE  LET d == Datagram(to, from, out[i])
             IN  /\ d = Datagram(d.to, d.from, d.records)
                 /\ Delivered(d, w2)
                 /\ d.to = "server" => d.from = <<"client", me>>
                 /\ d.to = "client" => \E j \in 1..runs : d.from = <<"server", j>>
    <2> DEFINE d == Datagram(to, from, out[i])
    <2>1. d.to = to /\ d.from = from /\ d.records = out[i]
        BY Zenon DEF Datagram
    <2>2. Len(out[i]) \in Nat /\ \A k \in 1..Len(out[i]) : out[i][k] \in By(w2, from)
        <3>1. Len(out[i]) \in Nat
            BY Zenon DEF Flights
        <3>2. \A k \in 1..Len(out[i]) : out[i][k] \in Sent(out)
            BY DEF Sent, Elements
        <3>3. QED
            BY <1>1, <3>1, <3>2, Zenon
    <2>3. d = Datagram(d.to, d.from, d.records)
        BY <2>1, Zenon
    <2> HIDE DEF d
    <2>4. Delivered(d, w2)
        BY <2>1, <2>2, Zenon DEF Delivered
    <2>5. QED
        BY <2>1, <2>3, <2>4 DEF d
<1>6. \A d \in n2 : d \in n \/ \E i \in 1..Len(out) : d = Datagram(to, from, out[i])
    BY Zenon DEF NetAfter
<1> HIDE DEF n2
<1>7. QED
    BY <1>2, <1>4, <1>5, <1>6, Zenon DEF NetworkInv, n2, w2

\* More records of the client, and more sessions, leave what has been served.
LEMMA ServedStill ==
    ASSUME NEW S, NEW run, NEW C, NEW A, Served(S, run, C, A), NEW C2, C \subseteq C2,
           NEW A2, A \subseteq A2
    PROVE  Served(S, run, C2, A2)
BY Zenon DEF Served, Opened

\* The client sends.
LEMMA ClientSent ==
    ASSUME NEW c, NEW v, NEW n, NEW w, NEW A, HandshakeInv(c, v, n, w, A),
           NEW d, d.me = c.me, NEW out, Flights(out), NEW taken,
           ClientInv(d, By(w, <<"client", 1>>) \cup Sent(out)),
           HelloInv(d, By(w, <<"client", 1>>) \cup Sent(out), v.run)
    PROVE  HandshakeInv(d, v, NetAfter(n, taken, "server", <<"client", 1>>, out),
                        WireAfter(w, <<"client", 1>>, out), A)
<1> DEFINE name == <<"client", 1>>
           C == By(w, name)
           w2 == WireAfter(w, name, out)
           n2 == NetAfter(n, taken, "server", name, out)
<1>1. /\ By(w2, name) = C \cup Sent(out)
      /\ \A other : other # name => By(w2, other) = By(w, other)
    BY WireGrows, Zenon
<1>2. \A j : By(w2, <<"server", j>>) = By(w, <<"server", j>>)
    <2>1. \A j : <<"server", j>> # <<"client", 1>>
        BY Zenon
    <2>2. QED
        BY <1>1, <2>1, Zenon
<1>3. NetworkInv(n2, w2, 1, v.run)
    BY NetworkSends, Zenon DEF HandshakeInv
<1> HIDE DEF w2, n2, name
<1>4. ASSUME NEW j \in 1..v.run
      PROVE  Served(By(w2, <<"server", j>>), j, By(w2, name), A)
    <2>1. Served(By(w, <<"server", j>>), j, C, A) /\ C \subseteq C \cup Sent(out) /\ A \subseteq A
        BY Zenon DEF HandshakeInv, name
    <2> HIDE DEF C
    <2>2. Served(By(w, <<"server", j>>), j, C \cup Sent(out), A)
        BY <2>1, ServedStill, Zenon
    <2>3. QED
        BY <1>1, <1>2, <2>2, Zenon DEF C
<1>5. QED
    BY <1>1, <1>2, <1>3, <1>4, Zenon DEF HandshakeInv, name, w2, n2

\* The server sends.
LEMMA ServerSent ==
    ASSUME NEW c, NEW v, NEW n, NEW w, NEW A, HandshakeInv(c, v, n, w, A),
           NEW e, e.run = v.run, NEW out, Flights(out), NEW taken, NEW A2, A \subseteq A2,
           ServerInv(e, By(w, <<"server", v.run>>) \cup Sent(out), A2),
           Served(By(w, <<"server", v.run>>) \cup Sent(out), v.run, By(w, <<"client", 1>>), A2)
    PROVE  HandshakeInv(c, e, NetAfter(n, taken, "client", <<"server", v.run>>, out),
                        WireAfter(w, <<"server", v.run>>, out), A2)
<1> DEFINE name == <<"server", v.run>>
           C == By(w, <<"client", 1>>)
           w2 == WireAfter(w, name, out)
           n2 == NetAfter(n, taken, "client", name, out)
<1>1. /\ By(w2, name) = By(w, name) \cup Sent(out)
      /\ \A other : other # name => By(w2, other) = By(w, other)
    <2> HIDE DEF name
    <2>1. QED
        BY WireGrows, Zenon
<1>2. By(w2, <<"client", 1>>) = C
    <2>1. <<"client", 1>> # name
        BY Zenon
    <2>2. QED
        BY <1>1, <2>1, Zenon
<1>3. NetworkInv(n2, w2, 1, v.run)
    <2>1. v.run \in 1..v.run /\ NetworkInv(n, w, 1, v.run)
        BY AcceptsAssumption DEF HandshakeInv
    <2>2. QED
        BY <2>1, NetworkSends
<1> HIDE DEF w2, n2
<1>4. ASSUME NEW j \in 1..v.run
      PROVE  Served(By(w2, <<"server", j>>), j, C, A2)
    <2>1. CASE j = v.run
        BY <1>1, <2>1, Zenon
    <2>2. CASE j # v.run
        <3>1. <<"server", j>> # name
            BY <2>2, Zenon
        <3>2. Served(By(w, <<"server", j>>), j, C, A) /\ C \subseteq C
            BY Zenon DEF HandshakeInv
        <3> HIDE DEF name, C
        <3>3. Served(By(w, <<"server", j>>), j, C, A2)
            BY <3>2, ServedStill
        <3>4. QED
            BY <1>1, <3>1, <3>3
    <2>3. QED
        BY <2>1, <2>2
<1>5. QED
    BY <1>1, <1>2, <1>3, <1>4 DEF HandshakeInv, w2, n2

-----------------------------------------------------------------------------
(* The server's steps *)

\* The deadline around accept, and a receive that is called again.
LEMMA ServerRests ==
    ASSUME NEW v, NEW S, NEW A, ServerInv(v, S, A), NEW d,
           \/ /\ v.phase \in {"Cookie", "ClientFinished"}
              /\ d = [v EXCEPT !.phase = "TimedOut"]
           \/ d = [v EXCEPT !.used = 0]
    PROVE  /\ ServerInv(d, S, A) /\ d.run = v.run /\ d.secret = v.secret
           /\ d.phase = v.phase \/ d.phase = "TimedOut"
<1>1. IsServer(v)
    BY Zenon DEF ServerInv
<1>2. /\ IsServer(d)
      /\ \A f \in ServerFields \ {"phase", "used"} : d[f] = v[f]
      /\ \/ d.phase = v.phase
         \/ v.phase \in {"Cookie", "ClientFinished"} /\ d.phase = "TimedOut"
    BY <1>1, Zenon DEF IsServer, ServerFields
<1>3. /\ \A f \in {"run", "secret", "next0", "next1", "flight"} : d[f] = v[f]
      /\ d.key = v.key /\ d.finished = v.finished /\ d.run = v.run /\ d.secret = v.secret
    BY <1>2, Zenon DEF ServerFields
<1>4. d.key # None => d.key[1] = d.secret /\ d.key[3] = d.run
    BY <1>3, Zenon DEF ServerInv
<1>5. ServerInv(d, S, A)
    BY <1>2, <1>3, <1>4, ServerKept
<1>6. QED
    BY <1>2, <1>3, <1>5

\* send_application_data.
LEMMA ServerDataKeeps ==
    ASSUME NEW v, NEW S, NEW C, NEW A, ServerInv(v, S, A), Served(S, v.run, C, A),
           v.phase = "Done"
    PROVE  LET d == [v EXCEPT !.next1 = @ + 1]
               record == Sealed(v.next1, "data", v.key, None)
           IN  /\ d.run = v.run /\ d.secret = v.secret /\ d.phase = "Done"
               /\ ServerInv(d, S \cup {record}, A)
               /\ Served(S \cup {record}, v.run, C, A)
<1> DEFINE d == [v EXCEPT !.next1 = @ + 1]
           record == Sealed(v.next1, "data", v.key, None)
<1>1. IsServer(v) /\ v.next0 \in Nat /\ v.next1 \in Nat /\ Within(S, v.next0, v.next1)
    BY Zenon DEF ServerInv, Within
<1>2. /\ IsServer(d) /\ d.next1 = v.next1 + 1
      /\ \A f \in ServerFields \ {"next1"} : d[f] = v[f]
    BY <1>1, Zenon DEF IsServer, ServerFields
<1>3. record.epoch = 1 /\ record.seq = v.next1 /\ record.content = "data"
    BY Zenon DEF Sealed, Record
<1> HIDE DEF d, record
<1>4. /\ d.run = v.run /\ d.secret = v.secret /\ d.phase = "Done" /\ d.next0 = v.next0
      /\ d.key = v.key /\ d.finished = v.finished /\ d.next1 \in Nat
    BY <1>1, <1>2 DEF ServerFields
<1>5. Ahead({record}, v.next0, v.next1, d.next0, d.next1)
    BY <1>1, <1>2, <1>3, <1>4 DEF Ahead, Distinct, Numbered, HelloVerify, PlainMessage
<1>6. FinishedIn({record}, A) /\ A \subseteq A
    BY <1>3, Zenon DEF FinishedIn
<1>7. Served(S \cup {record}, v.run, C, A) /\ Within(S \cup {record}, d.next0, d.next1)
    BY <1>1, <1>5, <1>6, ServedMore
<1>8. ServerInv(d, S \cup {record}, A)
    BY <1>2, <1>4, <1>7, Zenon DEF ServerInv, Within
<1>9. QED
    BY <1>4, <1>7, <1>8 DEF d, record

\* A server that starts to accept.
LEMMA StartedServer ==
    ASSUME NEW run \in Nat, NEW secret, NEW A,
           \A a \in A : a.key[3] \in Nat /\ a.key[3] < run
    PROVE  LET v == ServerStart(run, secret)
           IN  /\ v.run = run /\ v.secret = secret /\ v.phase = "Cookie"
               /\ ServerInv(v, {}, A)
<1> DEFINE v == ServerStart(run, secret)
<1>1. /\ v.run = run /\ v.secret = secret /\ v.phase = "Cookie" /\ v.next0 = 0
      /\ v.next1 = 0 /\ v.key = None
    BY Zenon DEF ServerStart
<1>2. IsServer(v)
    BY Zenon DEF ServerStart, IsServer, ServerFields
<1> HIDE DEF v
<1>3. \A a \in A : a.key[3] \in Nat /\ a.key[3] <= v.run /\ a.key[3] # v.run
    BY <1>1
<1>4. ServerInv(v, {}, A)
    BY <1>1, <1>2, <1>3 DEF ServerInv
<1>5. QED
    BY <1>1, <1>4, Zenon DEF v

\* What holds for one accept more.
LEMMA MoreRuns ==
    ASSUME NEW c, NEW C, NEW run \in Nat, HelloInv(c, C, run), NEW n, NEW w,
           NetworkInv(n, w, 1, run)
    PROVE  /\ HelloInv(c, C, run + 1) /\ NetworkInv(n, w, 1, run + 1)
           /\ By(w, <<"server", run + 1>>) = {}
<1>1. \A j \in 1..run : j \in 1..(run + 1)
    OBVIOUS
<1>2. Cookies(c.me, run) \subseteq Cookies(c.me, run + 1)
    BY <1>1, Zenon DEF Cookies
<1>3. HelloInv(c, C, run + 1)
    BY <1>2, Zenon DEF HelloInv
<1>4. NetworkInv(n, w, 1, run + 1)
    BY <1>1, Zenon DEF NetworkInv
<1>5. ASSUME NEW x \in w PROVE x[1] # <<"server", run + 1>>
    <2>1. CASE x[1] = <<"client", 1>>
        <3>1. <<"client", 1>> # <<"server", run + 1>>
            BY Zenon
        <3>2. QED
            BY <2>1, <3>1
    <2>2. ASSUME NEW j \in 1..run, x[1] = <<"server", j>> PROVE x[1] # <<"server", run + 1>>
        <3>1. j # run + 1
            OBVIOUS
        <3>2. <<"server", j>> # <<"server", run + 1>>
            BY <3>1, Zenon
        <3>3. QED
            BY <2>2, <3>2
    <2>3. QED
        BY <2>1, <2>2 DEF NetworkInv
<1>6. By(w, <<"server", run + 1>>) = {}
    BY <1>5, Zenon DEF By
<1>7. QED
    BY <1>3, <1>4, <1>6

\* accept is called again.
LEMMA RestartKeeps ==
    ASSUME NEW c, NEW v, NEW n, NEW w, NEW A, HandshakeInv(c, v, n, w, A),
           v.phase \in {"Failed", "TimedOut", "Done"}, v.run < MaxAccepts
    PROVE  LET d == ServerStart(v.run + 1, v.secret)
           IN  HandshakeInv(c, d, n, w, A) /\ d.secret = v.secret /\ d.phase # "Done"
<1> DEFINE d == ServerStart(v.run + 1, v.secret)
           C == By(w, <<"client", 1>>)
           S(j) == By(w, <<"server", j>>)
<1>1. /\ v.run \in Nat /\ v.run + 1 \in 1..MaxAccepts /\ v.run + 1 \in Nat
      /\ HelloInv(c, C, v.run) /\ NetworkInv(n, w, 1, v.run) /\ ServerInv(v, S(v.run), A)
      /\ c.me = 1 /\ ClientInv(c, C)
      /\ \A j \in 1..v.run : Served(S(j), j, C, A)
    BY AcceptsAssumption DEF HandshakeInv
<1> HIDE DEF C
<1>2. HelloInv(c, C, v.run + 1) /\ NetworkInv(n, w, 1, v.run + 1) /\ S(v.run + 1) = {}
    BY <1>1, MoreRuns
<1>3. \A a \in A : a.key[3] \in Nat /\ a.key[3] < v.run + 1
    <2>1. v.run \in Nat /\ \A a \in A : a.key[3] \in Nat /\ a.key[3] <= v.run
        BY <1>1, Zenon DEF ServerInv
    <2>2. QED
        BY <2>1
<1>4. /\ d.run = v.run + 1 /\ d.secret = v.secret /\ d.phase = "Cookie"
      /\ ServerInv(d, {}, A)
    BY <1>1, <1>3, StartedServer, Zenon
<1> HIDE DEF d, S
<1>5. Served({}, v.run + 1, C, A)
    BY Zenon DEF Served, Distinct
<1>6. \A j \in 1..(v.run + 1) : Served(S(j), j, C, A)
    <2>1. \A j \in 1..(v.run + 1) : j \in 1..v.run \/ j = v.run + 1
        BY <1>1
    <2>2. QED
        BY <1>1, <1>2, <1>5, <2>1
<1>7. QED
    BY <1>1, <1>2, <1>4, <1>6 DEF HandshakeInv, C, S, d

-----------------------------------------------------------------------------
(* Every step keeps the invariant, and is one of key agreement or none *)

Session(c) == IF c.phase = "Done" THEN SessionOf(c) ELSE None

\* A step of the client: it opens no session, or one the server has opened.
ClientAgrees(c, d, A) ==
    Session(d) = Session(c) \/ (Session(c) = None /\ Session(d) \in A)

\* A step of the server: it opens no session, or a new one with a client
\* that knows its secret.
ServerAgrees(v, e, A, A2) ==
    /\ e.secret = v.secret
    /\ \/ A2 = A
       \/ v.secret = ClientSecret /\ \E x : x \notin A /\ A2 = A \cup {x}

\* The client takes a datagram off the network.
LEMMA DatagramToClient ==
    ASSUME NEW c, NEW v, NEW n, NEW w, NEW A, HandshakeInv(c, v, n, w, A),
           NEW d \in n, d.to = "client", NEW taken
    PROVE  LET s == ClientDatagram(c, d.records)
           IN  /\ HandshakeInv(s.state, v, NetAfter(n, taken, "server", <<"client", 1>>, s.out),
                               WireAfter(w, <<"client", 1>>, s.out), A)
               /\ ClientAgrees(c, s.state, A)
<1> DEFINE s == ClientDatagram(c, d.records)
           C == By(w, <<"client", 1>>)
           S(j) == By(w, <<"server", j>>)
<1>1. PICK j \in 1..v.run : d.from = <<"server", j>>
    BY Zenon DEF HandshakeInv, NetworkInv
<1>2. Len(d.records) \in Nat /\ \A i \in 1..Len(d.records) : d.records[i] \in S(j)
    BY <1>1, Zenon DEF HandshakeInv, NetworkInv, Delivered
<1>3. /\ c.me = 1 /\ v.run \in Nat /\ v.run \in 1..MaxAccepts /\ Served(S(j), j, C, A)
      /\ ClientInv(c, C) /\ HelloInv(c, C, v.run)
    BY AcceptsAssumption DEF HandshakeInv
<1> HIDE DEF S, C
<1>4. Answered(d.records, C, v.run)
    BY <1>2, <1>3 DEF Answered, Served
<1>5. \A i \in 1..v.run : Cookie(i, c.me) # None
    BY <1>3, CookieAssumption, AcceptsAssumption
<1>6. ClientFold(c, s, C) /\ ClientRun(c, s, d.records)
    <2>1. c.phase = "ServerFinished" => c.cke.type = "ClientKeyExchange"
        BY <1>3, Zenon DEF HelloInv
    <2>2. QED
        BY <1>2, <1>3, <2>1, ClientRuns
<1> HIDE DEF s
<1>7. HelloInv(s.state, C \cup Sent(s.out), v.run)
    BY <1>3, <1>4, <1>5, <1>6, HellosKept, Zenon
<1>8. /\ s.state.me = c.me /\ Flights(s.out)
      /\ ClientInv(s.state, C \cup Sent(s.out))
    BY <1>6, Zenon DEF ClientFold, IsStep
<1>9. HandshakeInv(s.state, v, NetAfter(n, taken, "server", <<"client", 1>>, s.out),
                   WireAfter(w, <<"client", 1>>, s.out), A)
    BY <1>7, <1>8, ClientSent DEF C
<1>10. ClientAgrees(c, s.state, A)
    <2>1. CASE c.phase = "Done"
        <3>1. s = Step(c)
            BY <1>6, <2>1, Zenon DEF ClientRun, ClientWaiting
        <3>2. s.state = c
            BY <3>1, Zenon DEF Step
        <3>3. QED
            BY <3>2, Zenon DEF ClientAgrees
    <2>2. CASE c.phase # "Done" /\ s.state.phase # "Done"
        BY <2>2, Zenon DEF ClientAgrees, Session
    <2>3. CASE c.phase # "Done" /\ s.state.phase = "Done"
        <3>1. PICK i \in 1..Len(d.records) : Confirms(d.records[i], s.state)
            BY <1>6, <2>3, Zenon DEF ClientRun
        <3> DEFINE m == d.records[i].message
        <3>2. Opened(m, A)
            BY <1>2, <1>3, <3>1, Zenon DEF Confirms, Served
        <3>3. PICK t : Body(m) = <<"server", s.state.key, t>> /\ s.state.transcript = Append(t, m)
            BY <3>1, Zenon DEF Confirms
        <3> HIDE DEF m
        <3>4. Body(m)[2] = s.state.key /\ Append(Body(m)[3], m) = s.state.transcript
            BY <3>3
        <3>5. SessionOf(s.state) \in A
            BY <3>2, <3>4, Zenon DEF Opened, SessionOf
        <3>6. QED
            BY <2>3, <3>5, Zenon DEF ClientAgrees, Session
    <2>4. QED
        BY <2>1, <2>2, <2>3
<1>11. QED
    BY <1>9, <1>10 DEF s

\* What the server did with a datagram reaches the network.
LEMMA ServerFolded ==
    ASSUME NEW c, NEW v, NEW n, NEW w, NEW A, HandshakeInv(c, v, n, w, A), NEW s, NEW taken,
           ServerFold(v, s, By(w, <<"server", v.run>>), By(w, <<"client", 1>>), A)
    PROVE  LET A2 == OpenedBy(v, s.state, A)
           IN  /\ HandshakeInv(c, s.state,
                        NetAfter(n, taken, "client", <<"server", v.run>>, s.out),
                        WireAfter(w, <<"server", v.run>>, s.out), A2)
               /\ ServerAgrees(v, s.state, A, A2)
<1> DEFINE A2 == OpenedBy(v, s.state, A)
<1>1. A \subseteq A2
    BY Zenon DEF OpenedBy
<1>2. ServerAgrees(v, s.state, A, A2)
    <2>1. CASE A2 = A
        BY <2>1, Zenon DEF ServerAgrees, ServerFold
    <2>2. CASE A2 # A
        <3>1. v.phase # "Done" /\ s.state.phase = "Done" /\ A2 = A \cup {SessionOf(s.state)}
            BY <2>2, Zenon DEF OpenedBy
        <3>2. v.secret = ClientSecret /\ s.state.key[3] = v.run /\ s.state.secret = v.secret
            BY <3>1, Zenon DEF ServerFold
        <3>3. \A a \in A : a.key[3] # v.run
            BY <3>1, Zenon DEF HandshakeInv, ServerInv
        <3>4. SessionOf(s.state).key[3] = v.run
            BY <3>2, Zenon DEF SessionOf
        <3>5. SessionOf(s.state) \notin A
            BY <3>3, <3>4
        <3>6. QED
            BY <3>1, <3>2, <3>5, Zenon DEF ServerAgrees
    <2>3. QED
        BY <2>1, <2>2, Zenon
<1> HIDE DEF A2
<1>3. HandshakeInv(c, s.state, NetAfter(n, taken, "client", <<"server", v.run>>, s.out),
                   WireAfter(w, <<"server", v.run>>, s.out), A2)
    <2>1. /\ s.state.run = v.run /\ Flights(s.out)
          /\ ServerInv(s.state, By(w, <<"server", v.run>>) \cup Sent(s.out), A2)
          /\ Served(By(w, <<"server", v.run>>) \cup Sent(s.out), v.run, By(w, <<"client", 1>>), A2)
        BY Zenon DEF ServerFold, IsStep, A2
    <2>2. QED
        BY <1>1, <2>1, ServerSent, Zenon
<1>4. QED
    BY <1>2, <1>3, Zenon DEF A2

\* A datagram on the network is one the server can handle.
LEMMA DatagramToServer ==
    ASSUME NEW c, NEW v, NEW n, NEW w, NEW A, HandshakeInv(c, v, n, w, A),
           NEW d \in n, d.to = "server"
    PROVE  ServerFold(v, ServerDatagram(v, d.records), By(w, <<"server", v.run>>),
                      By(w, <<"client", 1>>), A)
<1> DEFINE C == By(w, <<"client", 1>>)
           S == By(w, <<"server", v.run>>)
<1>1. d.from = <<"client", 1>>
    BY Zenon DEF HandshakeInv, NetworkInv
<1>2. Len(d.records) \in Nat /\ \A i \in 1..Len(d.records) : d.records[i] \in C
    BY <1>1, Zenon DEF HandshakeInv, NetworkInv, Delivered
<1>3. /\ c.me = 1 /\ v.run \in 1..MaxAccepts /\ v.run \in 1..v.run /\ Served(S, v.run, C, A)
      /\ ClientInv(c, C) /\ HelloInv(c, C, v.run) /\ ServerInv(v, S, A)
    BY AcceptsAssumption DEF HandshakeInv
<1> HIDE DEF S, C
<1>4. FromClient(c, C, v.run)
    <2>1. Distinct(C) /\ \A x \in C : x.epoch = 1 => x.key[1] = ClientSecret
        BY <1>3, Zenon DEF ClientInv, ClientCore
    <2>2. Cookie(v.run, c.me) # None
        BY <1>3, CookieAssumption, Zenon
    <2>3. QED
        BY <1>3, <2>1, <2>2, Zenon DEF FromClient
<1>5. QED
    BY <1>2, <1>3, <1>4, ServerHandles, Zenon DEF S, C

\* The datagrams under way are fewer, or are split.
LEMMA FewerDatagrams ==
    ASSUME NEW c, NEW v, NEW n, NEW w, NEW A, HandshakeInv(c, v, n, w, A), NEW n2,
           \A e \in n2 : e \in n \/ \E d \in n : \E i \in 1..Len(d.records) :
                                        e = [d EXCEPT !.records = <<d.records[i]>>]
    PROVE  HandshakeInv(c, v, n2, w, A)
<1>1. ASSUME NEW d \in n, NEW i \in 1..Len(d.records)
      PROVE  LET e == [d EXCEPT !.records = <<d.records[i]>>]
             IN  /\ e = Datagram(e.to, e.from, e.records)
                 /\ Delivered(e, w)
                 /\ e.to = d.to /\ e.from = d.from
    <2> DEFINE e == [d EXCEPT !.records = <<d.records[i]>>]
    <2>1. d = [to |-> d.to, from |-> d.from, records |-> d.records] /\ Delivered(d, w)
        BY Zenon DEF HandshakeInv, NetworkInv, Datagram
    <2>2. /\ e = Datagram(e.to, e.from, e.records) /\ e.to = d.to /\ e.from = d.from
          /\ e.records = <<d.records[i]>>
        BY <2>1 DEF Datagram
    <2> HIDE DEF e
    <2>3. Len(e.records) = 1 /\ e.records[1] = d.records[i]
        BY <2>2
    <2>4. Delivered(e, w)
        BY <2>1, <2>2, <2>3 DEF Delivered
    <2>5. QED
        BY <2>2, <2>4, Zenon DEF e
<1>2. NetworkInv(n2, w, 1, v.run)
    <2>1. ASSUME NEW e \in n2
          PROVE  /\ e = Datagram(e.to, e.from, e.records)
                 /\ Delivered(e, w)
                 /\ e.to = "server" => e.from = <<"client", 1>>
                 /\ e.to = "client" => \E j \in 1..v.run : e.from = <<"server", j>>
        <3>1. CASE e \in n
            BY <3>1, Zenon DEF HandshakeInv, NetworkInv
        <3>2. CASE e \notin n
            <4>0. PICK d \in n : \E i \in 1..Len(d.records) :
                                    e = [d EXCEPT !.records = <<d.records[i]>>]
                BY <3>2, Zenon
            <4>1. PICK i \in 1..Len(d.records) : e = [d EXCEPT !.records = <<d.records[i]>>]
                BY <4>0, Zenon
            <4>2. e = Datagram(e.to, e.from, e.records) /\ Delivered(e, w)
                  /\ e.to = d.to /\ e.from = d.from
                BY <1>1, <4>1
            <4>3. /\ d.to = "server" => d.from = <<"client", 1>>
                  /\ d.to = "client" => \E j \in 1..v.run : d.from = <<"server", j>>
                BY Zenon DEF HandshakeInv, NetworkInv
            <4>4. QED
                BY <4>2, <4>3, Zenon
        <3>3. QED
            BY <3>1, <3>2, Zenon
    <2>2. QED
        BY <2>1, Zenon DEF HandshakeInv, NetworkInv
<1>3. QED
    BY <1>2, Zenon DEF HandshakeInv

\* A client that only changes its own state.
LEMMA ClientAlone ==
    ASSUME NEW c, NEW v, NEW n, NEW w, NEW A, HandshakeInv(c, v, n, w, A), NEW d, d.me = c.me,
           ClientInv(d, By(w, <<"client", 1>>)), HelloInv(d, By(w, <<"client", 1>>), v.run)
    PROVE  HandshakeInv(d, v, n, w, A)
BY Zenon DEF HandshakeInv

\* The server changes without sending.
LEMMA ServerAlone ==
    ASSUME NEW c, NEW v, NEW n, NEW w, NEW A, HandshakeInv(c, v, n, w, A), NEW e, e.run = v.run,
           ServerInv(e, By(w, <<"server", v.run>>), A)
    PROVE  HandshakeInv(c, e, n, w, A)
BY Zenon DEF HandshakeInv

-----------------------------------------------------------------------------
(* The actions *)

\* What a step does to the sessions, as KeyAgreement sees them.
Agrees ==
    \/ ClientAgrees(cl, cl', accepted) /\ UNCHANGED <<sv, accepted>>
    \/ ServerAgrees(sv, sv', accepted, accepted') /\ UNCHANGED cl

\* Nothing has been sent at the start.
LEMMA InvStarts == Init => Inv
<1> SUFFICES ASSUME Init PROVE Inv
    BY Zenon
<1>1. PICK secret \in ServerSecrets : sv = ServerStart(1, secret)
    BY Zenon DEF Init
<1>2. cl = ClientStart(1) /\ net = {} /\ wire = {} /\ accepted = {}
    BY Zenon DEF Init, NetworkInit
<1>3. cl.me = 1 /\ ClientInv(cl, {}) /\ HelloInv(cl, {}, 1)
    BY <1>2, StartedClient, Zenon
<1>4. sv.run = 1 /\ ServerInv(sv, {}, {})
    <2>1. \A a \in {} : a.key[3] \in Nat /\ a.key[3] < 1
        BY Zenon
    <2>2. QED
        BY <1>1, <2>1, StartedServer
<1>5. \A name : By(wire, name) = {}
    BY <1>2, Zenon DEF By
<1>6. Served({}, 1, {}, {}) /\ NetworkInv({}, {}, 1, 1)
    BY Zenon DEF Served, Distinct, NetworkInv
<1>7. 1 \in 1..MaxAccepts /\ \A j \in 1..1 : j = 1
    BY AcceptsAssumption
<1>8. QED
    BY <1>2, <1>3, <1>4, <1>5, <1>6, <1>7 DEF Inv, HandshakeInv

\* The names under which the two sides send.
LEMMA Names ==
    ASSUME Inv
    PROVE  /\ ClientName(cl) = <<"client", 1>> /\ ServerName(sv) = <<"server", sv.run>>
           /\ sv.run \in Nat /\ cl.me = 1 /\ ClientInv(cl, By(wire, <<"client", 1>>))
           /\ HelloInv(cl, By(wire, <<"client", 1>>), sv.run)
           /\ ServerInv(sv, By(wire, <<"server", sv.run>>), accepted)
           /\ Served(By(wire, <<"server", sv.run>>), sv.run, By(wire, <<"client", 1>>), accepted)
<1>1. sv.run \in 1..sv.run
    BY AcceptsAssumption DEF Inv, HandshakeInv
<1>2. QED
    BY <1>1, AcceptsAssumption DEF Inv, HandshakeInv, ClientName, ServerName

\* One lemma per action: the first ClientHello.
LEMMA ClientConnectsKeeps == Inv /\ ClientConnects => Inv' /\ Agrees
<1> SUFFICES ASSUME Inv, ClientConnects PROVE Inv' /\ Agrees
    BY Zenon
<1> DEFINE s == NextClientHello(Step([cl EXCEPT !.phase = "HelloVerify"]))
           name == <<"client", 1>>
<1>1. cl.phase = "Start" /\ cl' = s.state /\ Exchange({}, "server", name, s.out)
      /\ UNCHANGED <<sv, accepted>>
    BY Names, Zenon DEF ClientConnects, Connect, ClientDoes
<1>2. /\ IsStep(s) /\ s.state.me = cl.me /\ s.state.phase # "Done"
      /\ ClientInv(s.state, By(wire, name) \cup Sent(s.out))
      /\ HelloInv(s.state, By(wire, name) \cup Sent(s.out), sv.run)
    BY <1>1, Names, ConnectKeeps, Zenon
<1> HIDE DEF s
<1>3. net' = NetAfter(net, {}, "server", name, s.out) /\ wire' = WireAfter(wire, name, s.out)
    BY <1>1, ExchangeIs, Zenon
<1>4. HandshakeInv(s.state, sv, NetAfter(net, {}, "server", name, s.out),
                   WireAfter(wire, name, s.out), accepted)
    BY <1>2, ClientSent, Zenon DEF Inv, IsStep
<1>5. Inv'
    BY <1>1, <1>3, <1>4 DEF Inv
<1>6. Agrees
    BY <1>1, <1>2, Zenon DEF Agrees, ClientAgrees, Session
<1>7. QED
    BY <1>5, <1>6, Zenon

\* A datagram reaches the client, for the first time or again.
LEMMA DeliverToClientKeeps ==
    ASSUME NEW again \in BOOLEAN
    PROVE  Inv /\ DeliverToClient(again) => Inv' /\ Agrees
<1> SUFFICES ASSUME Inv, DeliverToClient(again) PROVE Inv' /\ Agrees
    BY Zenon
<1> DEFINE name == <<"client", 1>>
<1>1. PICK d \in net : ClientReceives(d, again)
    BY Zenon DEF DeliverToClient
<1> DEFINE s == ClientDatagram(cl, d.records)
           taken == IF again THEN {} ELSE {d}
<1>2. /\ d.to = "client" /\ cl' = s.state /\ Exchange(taken, "server", name, s.out)
      /\ UNCHANGED <<sv, accepted>>
    BY <1>1, Names DEF DeliverToClient, ClientReceives, ClientDoes
<1>3. /\ HandshakeInv(s.state, sv, NetAfter(net, taken, "server", name, s.out),
                      WireAfter(wire, name, s.out), accepted)
      /\ ClientAgrees(cl, s.state, accepted)
    BY <1>2, DatagramToClient, Zenon DEF Inv
<1> HIDE DEF s, taken
<1>4. net' = NetAfter(net, taken, "server", name, s.out) /\ wire' = WireAfter(wire, name, s.out)
    BY <1>2, ExchangeIs, Zenon
<1>5. QED
    BY <1>2, <1>3, <1>4 DEF Inv, Agrees

\* A datagram reaches the server, for the first time or again.
LEMMA DeliverToServerKeeps ==
    ASSUME NEW again \in BOOLEAN
    PROVE  Inv /\ DeliverToServer(again) => Inv' /\ Agrees
<1> SUFFICES ASSUME Inv, DeliverToServer(again) PROVE Inv' /\ Agrees
    OBVIOUS
<1> DEFINE name == <<"server", sv.run>>
<1>1. PICK d \in net : ServerReceives(d, again)
    BY Zenon DEF DeliverToServer
<1> DEFINE s == ServerDatagram(sv, d.records)
           taken == IF again THEN {} ELSE {d}
<1>2. /\ d.to = "server" /\ sv' = s.state /\ Exchange(taken, "client", name, s.out)
      /\ UNCHANGED cl
    BY <1>1, Names, Zenon DEF DeliverToServer, ServerReceives, ServerDoes
<1>3. accepted' = OpenedBy(sv, s.state, accepted)
    BY <1>2, Zenon DEF DeliverToServer, Accepts, OpenedBy
<1>4. ServerFold(sv, s, By(wire, name), By(wire, <<"client", 1>>), accepted)
    BY <1>2, DatagramToServer, Zenon DEF Inv
<1> HIDE DEF s, taken
<1>5. net' = NetAfter(net, taken, "client", name, s.out) /\ wire' = WireAfter(wire, name, s.out)
    BY <1>2, ExchangeIs, Zenon
<1>6. /\ HandshakeInv(cl, s.state, NetAfter(net, taken, "client", name, s.out),
                      WireAfter(wire, name, s.out), OpenedBy(sv, s.state, accepted))
      /\ ServerAgrees(sv, s.state, accepted, OpenedBy(sv, s.state, accepted))
    BY <1>4, ServerFolded DEF Inv
<1>7. QED
    BY <1>2, <1>3, <1>5, <1>6 DEF Inv, Agrees

\* The client's timer: its flight goes out again under new numbers.
LEMMA ClientTimeoutKeeps == Inv /\ ClientTimeout => Inv' /\ Agrees
<1> SUFFICES ASSUME Inv, ClientTimeout PROVE Inv' /\ Agrees
    OBVIOUS
<1> DEFINE s == IF cl.phase = "ServerFinished" THEN SendFinishedFlight(Step(cl))
                ELSE ResendClientHello(Step(cl))
           name == <<"client", 1>>
<1>1. cl.phase \in ClientWaiting /\ cl' = s.state /\ Exchange({}, "server", name, s.out)
      /\ UNCHANGED <<sv, accepted>>
    BY Names, Zenon DEF ClientTimeout, ClientTimer, ClientDoes
<1>2. /\ IsStep(s) /\ s.state.me = cl.me /\ s.state.phase # "Done"
      /\ ClientInv(s.state, By(wire, name) \cup Sent(s.out))
      /\ HelloInv(s.state, By(wire, name) \cup Sent(s.out), sv.run)
    BY <1>1, Names, TimerKeeps, Zenon
<1> HIDE DEF s
<1>3. net' = NetAfter(net, {}, "server", name, s.out) /\ wire' = WireAfter(wire, name, s.out)
    BY <1>1, ExchangeIs
<1>4. HandshakeInv(s.state, sv, NetAfter(net, {}, "server", name, s.out),
                   WireAfter(wire, name, s.out), accepted)
    BY <1>2, ClientSent DEF Inv, IsStep
<1>5. Inv'
    BY <1>1, <1>3, <1>4 DEF Inv
<1>6. Agrees
    BY <1>1, <1>2, Zenon DEF Agrees, ClientAgrees, Session, ClientWaiting
<1>7. QED
    BY <1>5, <1>6

\* The server's timer: its flight goes out again under new numbers.
LEMMA ServerTimeoutKeeps == Inv /\ ServerTimeout => Inv' /\ Agrees
<1> SUFFICES ASSUME Inv, ServerTimeout PROVE Inv' /\ Agrees
    OBVIOUS
<1> DEFINE s == ResendServerFlight(Step(sv))
           name == <<"server", sv.run>>
           S == By(wire, name)
           C == By(wire, <<"client", 1>>)
<1>1. sv.phase = "ClientFinished" /\ sv' = s.state /\ Exchange({}, "client", name, s.out)
      /\ UNCHANGED <<cl, accepted>>
    BY Names, Zenon DEF ServerTimeout, ServerTimer, ServerDoes
<1>2. ServerFold(sv, Step(sv), S, C, accepted) /\ ~Step(sv).stop
    BY Names, ServerStep, Zenon DEF Step
<1>3. ServerFold(sv, s, S, C, accepted)
    BY <1>1, <1>2, ServerFlightResent
<1>4. s.state.phase = sv.phase
    <2>1. IsStep(Step(sv)) /\ Step(sv).stop = FALSE
        BY <1>2, Zenon DEF ServerFold, Step
    <2>2. ~s.stop
        BY <2>1, Zenon DEF ResendServerFlight, IsStep
    <2>3. QED
        BY <1>3, <2>2, Zenon DEF ServerFold
<1> HIDE DEF s
<1>5. net' = NetAfter(net, {}, "client", name, s.out) /\ wire' = WireAfter(wire, name, s.out)
    BY <1>1, ExchangeIs, Zenon
<1>6. OpenedBy(sv, s.state, accepted) = accepted
    BY <1>1, <1>4, Zenon DEF OpenedBy
<1>7. /\ HandshakeInv(cl, s.state, NetAfter(net, {}, "client", name, s.out),
                      WireAfter(wire, name, s.out), accepted)
      /\ ServerAgrees(sv, s.state, accepted, accepted)
    BY <1>3, <1>6, ServerFolded DEF Inv
<1>8. QED
    BY <1>1, <1>5, <1>7 DEF Inv, Agrees

\* The client's deadline passes.
LEMMA ClientGivesUpKeeps == Inv /\ ClientGivesUp => Inv' /\ Agrees
<1> SUFFICES ASSUME Inv, ClientGivesUp PROVE Inv' /\ Agrees
    OBVIOUS
<1> DEFINE d == [cl EXCEPT !.phase = "TimedOut"]
           C == By(wire, <<"client", 1>>)
<1>1. cl.phase \in ClientWaiting /\ cl' = d /\ UNCHANGED <<sv, net, wire, accepted>>
    BY Zenon DEF ClientGivesUp, ClientDeadline
<1>2. d.me = cl.me /\ d.phase = "TimedOut" /\ ClientInv(d, C) /\ HelloInv(d, C, sv.run)
    BY <1>1, Names, DeadlineKeeps
<1> HIDE DEF d
<1>3. HandshakeInv(d, sv, net, wire, accepted)
    BY <1>2, ClientAlone, Zenon DEF Inv
<1>4. QED
    BY <1>1, <1>2, <1>3 DEF Inv, Agrees, ClientAgrees, Session, ClientWaiting

\* The server's deadline, and a receive that is called again.
LEMMA ServerRestsKeeps == Inv /\ (ServerGivesUp \/ ServerListensAgain) => Inv' /\ Agrees
<1> SUFFICES ASSUME Inv, ServerGivesUp \/ ServerListensAgain PROVE Inv' /\ Agrees
    BY Zenon
<1>1. /\ \/ sv.phase \in {"Cookie", "ClientFinished"} /\ sv' = [sv EXCEPT !.phase = "TimedOut"]
         \/ sv' = [sv EXCEPT !.used = 0]
      /\ UNCHANGED <<cl, net, wire, accepted>>
    BY Zenon DEF ServerGivesUp, ServerDeadline, ServerListensAgain, ReceiveAgain, network
<1>2. /\ ServerInv(sv', By(wire, <<"server", sv.run>>), accepted)
      /\ sv'.run = sv.run /\ sv'.secret = sv.secret
    BY <1>1, Names, ServerRests
<1>3. HandshakeInv(cl, sv', net, wire, accepted)
    BY <1>2, ServerAlone, Zenon DEF Inv
<1>4. QED
    BY <1>1, <1>2, <1>3 DEF Inv, Agrees, ServerAgrees

\* The next accept has a name of its own, and has sent nothing.
LEMMA ServerRestartsKeeps == Inv /\ ServerRestarts => Inv' /\ Agrees
<1> SUFFICES ASSUME Inv, ServerRestarts PROVE Inv' /\ Agrees
    OBVIOUS
<1>1. /\ sv.phase \in {"Failed", "TimedOut", "Done"} /\ sv.run < MaxAccepts
      /\ sv' = ServerStart(sv.run + 1, sv.secret)
      /\ UNCHANGED <<cl, net, wire, accepted>>
    BY Zenon DEF ServerRestarts, AcceptAgain, network
<1>2. HandshakeInv(cl, sv', net, wire, accepted) /\ sv'.secret = sv.secret
    BY <1>1, RestartKeeps, Zenon DEF Inv
<1>3. QED
    BY <1>1, <1>2 DEF Inv, Agrees, ServerAgrees

\* Application data of the client takes the next number.
LEMMA ClientTalksKeeps == Inv /\ ClientTalks => Inv' /\ Agrees
<1> SUFFICES ASSUME Inv, ClientTalks PROVE Inv' /\ Agrees
    OBVIOUS
<1> DEFINE d == [cl EXCEPT !.next1 = @ + 1]
           record == Sealed(cl.next1, "data", cl.key, None)
           out == <<<<record>>>>
           name == <<"client", 1>>
<1>1. cl.phase = "Done" /\ cl' = d /\ Exchange({}, "server", name, out)
      /\ UNCHANGED <<sv, accepted>>
    BY Names, Zenon DEF ClientTalks, ClientSends
<1>2. /\ d.me = cl.me /\ d.phase = "Done" /\ d.key = cl.key /\ d.transcript = cl.transcript
      /\ ClientInv(d, By(wire, name) \cup {record})
      /\ HelloInv(d, By(wire, name) \cup {record}, sv.run)
    BY <1>1, Names, DataKeeps
<1>3. Flights(out) /\ Sent(out) = {record}
    BY OneRecord, Zenon
<1> HIDE DEF d, record, out
<1>4. net' = NetAfter(net, {}, "server", name, out) /\ wire' = WireAfter(wire, name, out)
    BY <1>1, ExchangeIs, Zenon
<1>5. HandshakeInv(d, sv, NetAfter(net, {}, "server", name, out),
                   WireAfter(wire, name, out), accepted)
    BY <1>2, <1>3, ClientSent DEF Inv
<1>6. Session(d) = Session(cl)
    BY <1>1, <1>2 DEF Session, SessionOf
<1>7. QED
    BY <1>1, <1>4, <1>5, <1>6 DEF Inv, Agrees, ClientAgrees

\* Application data of the server takes the next number.
LEMMA ServerTalksKeeps == Inv /\ ServerTalks => Inv' /\ Agrees
<1> SUFFICES ASSUME Inv, ServerTalks PROVE Inv' /\ Agrees
    OBVIOUS
<1> DEFINE d == [sv EXCEPT !.next1 = @ + 1]
           record == Sealed(sv.next1, "data", sv.key, None)
           out == <<<<record>>>>
           name == <<"server", sv.run>>
           C == By(wire, <<"client", 1>>)
<1>1. sv.phase = "Done" /\ sv' = d /\ Exchange({}, "client", name, out)
      /\ UNCHANGED <<cl, accepted>>
    BY Names, Zenon DEF ServerTalks, ServerSends
<1>2. /\ d.run = sv.run /\ d.secret = sv.secret
      /\ ServerInv(d, By(wire, name) \cup {record}, accepted)
      /\ Served(By(wire, name) \cup {record}, sv.run, C, accepted)
    BY <1>1, Names, ServerDataKeeps, Zenon
<1>3. Flights(out) /\ Sent(out) = {record} /\ accepted \subseteq accepted
    BY OneRecord, Zenon
<1> HIDE DEF d, record, out
<1>4. net' = NetAfter(net, {}, "client", name, out) /\ wire' = WireAfter(wire, name, out)
    BY <1>1, ExchangeIs
<1>5. HandshakeInv(cl, d, NetAfter(net, {}, "client", name, out),
                   WireAfter(wire, name, out), accepted)
    BY <1>2, <1>3, ServerSent DEF Inv
<1>6. QED
    BY <1>1, <1>2, <1>4, <1>5 DEF Inv, Agrees, ServerAgrees

\* A datagram is split or lost: no record is new.
LEMMA NetworkKeeps == Inv /\ (PeerSplits \/ NetworkLoses) => Inv' /\ Agrees
<1> SUFFICES ASSUME Inv, PeerSplits \/ NetworkLoses PROVE Inv' /\ Agrees
    OBVIOUS
<1>1. UNCHANGED <<cl, sv, wire, accepted>>
    BY Zenon DEF PeerSplits, NetworkLoses, Split, Lose
<1>2. \A e \in net' : e \in net \/ \E d \in net : \E i \in 1..Len(d.records) :
                                        e = [d EXCEPT !.records = <<d.records[i]>>]
    BY Zenon DEF PeerSplits, NetworkLoses, Split, Lose
<1>3. HandshakeInv(cl, sv, net', wire, accepted)
    BY <1>2, FewerDatagrams DEF Inv
<1>4. QED
    BY <1>1, <1>3 DEF Inv, Agrees, ClientAgrees

\* Every step keeps the invariant and agrees with KeyAgreement.
LEMMA NextKeeps == Inv /\ [Next]_vars => Inv' /\ Agrees
<1> SUFFICES ASSUME Inv, [Next]_vars PROVE Inv' /\ Agrees
    BY Zenon
<1>1. CASE UNCHANGED vars
    <2>1. UNCHANGED <<cl, sv, net, wire, accepted>>
        BY <1>1, Zenon DEF vars
    <2>2. QED
        BY <2>1, Zenon DEF Inv, Agrees, ClientAgrees
<1>2. ASSUME NEW again \in BOOLEAN, DeliverToClient(again) \/ DeliverToServer(again)
      PROVE  Inv' /\ Agrees
    BY <1>2, DeliverToClientKeeps, DeliverToServerKeeps
<1>3. QED
    BY <1>1, <1>2, ClientConnectsKeeps, ClientTimeoutKeeps, ServerTimeoutKeeps,
       ClientGivesUpKeeps, ServerRestsKeeps, ServerRestartsKeeps, ClientTalksKeeps,
       ServerTalksKeeps, NetworkKeeps DEF Next

\* The inductive invariant holds throughout.
LEMMA InvHolds == Spec => []Inv
<1>1. Init => Inv
    BY InvStarts, Zenon
<1>2. Inv /\ [Next]_vars => Inv'
    BY NextKeeps, Zenon
<1>3. QED
    BY <1>1, <1>2, PTL DEF Spec
-----------------------------------------------------------------------------
(* The theorems *)

\* Neither side ever puts two different records on the wire under one epoch
\* and sequence number: not by renumbering a retransmitted flight, not by
\* answering several ClientHellos statelessly, not by encrypting a Finished
\* again, and not by data sent after any of those.
THEOREM FreshRecordNumbersHold == Spec => []FreshRecordNumbers
<1>1. Inv => FreshRecordNumbers
    <2> SUFFICES ASSUME Inv, NEW x \in wire, NEW y \in wire, x[1] = y[1],
                        x[2].epoch = y[2].epoch, x[2].seq = y[2].seq
                 PROVE  x[2] = y[2]
        BY Zenon DEF FreshRecordNumbers
    <2>1. x[2] \in By(wire, x[1]) /\ y[2] \in By(wire, x[1])
        BY Zenon DEF By
    <2>2. Distinct(By(wire, x[1]))
        <3>1. CASE x[1] = <<"client", 1>>
            BY <3>1, Zenon DEF Inv, HandshakeInv, ClientInv, ClientCore
        <3>2. ASSUME NEW j \in 1..sv.run, x[1] = <<"server", j>> PROVE Distinct(By(wire, x[1]))
            BY <3>2, Zenon DEF Inv, HandshakeInv, Served
        <3>3. QED
            BY <3>1, <3>2, Zenon DEF Inv, HandshakeInv, NetworkInv
    <2>3. QED
        BY <2>1, <2>2 DEF Distinct
<1>2. QED
    BY <1>1, InvHolds, PTL

\* The transcript that the Finished messages of the client authenticate
\* begins with the ClientHello that it sent last.
THEOREM TranscriptHolds == Spec => []TranscriptStartsWithLastHello
<1>1. Inv => TranscriptStartsWithLastHello
    BY Zenon DEF Inv, HandshakeInv, ClientInv, ClientCore, TranscriptStartsWithLastHello
<1>2. QED
    BY <1>1, InvHolds, PTL

\* Client and server implement key agreement: each step of either driver
\* opens one session as KeyAgreement allows, or none.
THEOREM AgreementImplemented == Spec => ImplementsAgreement
<1>1. Init => Agreement!Init
    <2> SUFFICES ASSUME Init PROVE Agreement!Init
        OBVIOUS
    <2>1. cl.phase = "Start" /\ accepted = {}
        BY Zenon DEF Init, ClientStart
    <2>2. QED
        BY <2>1 DEF Agreement!Init
<1>2. Agrees => [Agreement!Next]_<<sv.secret = ClientSecret, accepted,
                                   IF cl.phase = "Done" THEN SessionOf(cl) ELSE None>>
    <2> SUFFICES ASSUME Agrees
                 PROVE  \/ Agreement!ServerOpens
                        \/ Agreement!ClientOpens
                        \/ /\ (sv.secret = ClientSecret)' = (sv.secret = ClientSecret)
                           /\ accepted' = accepted
                           /\ Session(cl)' = Session(cl)
        BY Zenon DEF Agreement!Next, Session
    <2>1. CASE ClientAgrees(cl, cl', accepted) /\ UNCHANGED <<sv, accepted>>
        BY <2>1, Zenon DEF ClientAgrees, Session, Agreement!ClientOpens
    <2>2. CASE ServerAgrees(sv, sv', accepted, accepted') /\ UNCHANGED cl
        <3>1. CASE accepted' = accepted
            BY <2>2, <3>1, Zenon DEF ServerAgrees, Session
        <3>2. CASE accepted' # accepted
            <4>1. PICK x : x \notin accepted /\ accepted' = accepted \cup {x}
                BY <2>2, <3>2 DEF ServerAgrees
            <4>3. \E new \in accepted' \ accepted : accepted' = accepted \cup {new}
                BY <4>1
            <4>4. /\ sv.secret = ClientSecret
                  /\ (sv.secret = ClientSecret)' = (sv.secret = ClientSecret)
                BY <2>2, <3>2 DEF ServerAgrees
            <4>6. (IF cl.phase = "Done" THEN SessionOf(cl) ELSE None)'
                    = IF cl.phase = "Done" THEN SessionOf(cl) ELSE None
                BY <2>2, Zenon
            <4>7. Agreement!ServerOpens
                BY <4>3, <4>4, <4>6 DEF Agreement!ServerOpens
            <4>8. QED
                BY <4>7
        <3>3. QED
            BY <3>1, <3>2
    <2>3. QED
        BY <2>1, <2>2 DEF Agrees
<1>3. Inv /\ [Next]_vars => Agrees
    BY NextKeeps, Zenon
<1>4. QED
    BY <1>1, <1>2, <1>3, InvHolds, PTL DEF Spec, ImplementsAgreement, Agreement!Spec
=============================================================================
