-------------------------- MODULE DtlsClientProofs --------------------------
(***************************************************************************)
(* The DTLS client on its own.  Whatever records reach it, from whomever:  *)
(* the numbers of the records it sends are fresh in both epochs, and its   *)
(* transcript starts with the ClientHello it sent last.  The invariant is  *)
(* about one call of connect and the set of the records that it sent.      *)
(***************************************************************************)
EXTENDS DtlsClient, TLAPS, FiniteSetTheorems

-----------------------------------------------------------------------------
(* Natural numbers: a set of them has a least element, and induction. *)

\* Every set of natural numbers that is not empty has a least element.
LEMMA LeastElement ==
    ASSUME NEW S, S \subseteq Nat, S # {}
    PROVE  \E n \in S : \A m \in S : n <= m
<1>1. PICK n \in S : \A m \in S : ~(<<m, n>> \in OpToRel(<, Nat))
    BY NatLessThanWellFounded, WFMin, Zenon
<1>2. OpToRel(<, Nat) = {ss \in Nat \X Nat : ss[1] < ss[2]}
    BY Zenon DEF OpToRel
<1>3. \A m \in S : ~(<<m, n>> \in {ss \in Nat \X Nat : ss[1] < ss[2]})
    BY <1>1, <1>2, Zenon
<1>4. ASSUME NEW m \in S PROVE n <= m
    <2>1. m \in Nat /\ n \in Nat /\ <<m, n>> \in Nat \X Nat
        BY Zenon
    <2>2. ~(<<m, n>>[1] < <<m, n>>[2])
        BY <1>3, <2>1, Zenon
    <2>3. QED
        BY <2>1, <2>2
<1>5. QED
    BY <1>4, Zenon

\* Induction, for a property given as the set of the numbers that have it.
LEMMA Induction ==
    ASSUME NEW S, 0 \in S, \A n \in Nat : n \in S => n + 1 \in S
    PROVE  Nat \subseteq S
<1> DEFINE missing == Nat \ S
<1> SUFFICES ASSUME missing # {} PROVE FALSE
    BY Zenon
<1>1. PICK n \in missing : \A m \in missing : n <= m
    BY LeastElement, Zenon
<1>2. n - 1 \in Nat /\ n - 1 \in S
    BY <1>1
<1>3. QED
    BY <1>1, <1>2

-----------------------------------------------------------------------------
(* Flights and the records in them *)

IsSequence(q) == \E S : q \in Seq(S)

Elements(q) == {q[i] : i \in 1..Len(q)}

\* A sequence of flights.
Flights(out) == IsSequence(out) /\ \A i \in 1..Len(out) : Len(out[i]) \in Nat

\* The records of a sequence of flights.
Sent(out) == UNION {Elements(out[i]) : i \in 1..Len(out)}

\* Appending to a sequence of anything.
LEMMA SequenceAppend ==
    ASSUME NEW q, IsSequence(q), NEW e
    PROVE  /\ IsSequence(Append(q, e))
           /\ Len(q) \in Nat
           /\ Len(Append(q, e)) = Len(q) + 1
           /\ \A i \in 1..Len(q) : Append(q, e)[i] = q[i]
           /\ Append(q, e)[Len(q) + 1] = e
           /\ Elements(Append(q, e)) = Elements(q) \cup {e}
<1>1. PICK S : q \in Seq(S)
    BY Zenon DEF IsSequence
<1>2. q \in Seq(S \cup {e})
    BY <1>1
<1>3. /\ Append(q, e) \in Seq(S \cup {e})
      /\ Len(q) \in Nat
      /\ Len(Append(q, e)) = Len(q) + 1
      /\ \A i \in 1..Len(q) : Append(q, e)[i] = q[i]
      /\ Append(q, e)[Len(q) + 1] = e
    BY <1>2
<1>4. Elements(Append(q, e)) = Elements(q) \cup {e}
    BY <1>3 DEF Elements
<1>5. QED
    BY <1>3, <1>4, Zenon DEF IsSequence

\* A flight that is sent adds its records to those sent before.
LEMMA SentAppend ==
    ASSUME NEW out, Flights(out), NEW flight, Len(flight) \in Nat
    PROVE  /\ Flights(Append(out, flight))
           /\ Sent(Append(out, flight)) = Sent(out) \cup Elements(flight)
<1>1. /\ IsSequence(Append(out, flight))
      /\ Len(out) \in Nat
      /\ Len(Append(out, flight)) = Len(out) + 1
      /\ \A i \in 1..Len(out) : Append(out, flight)[i] = out[i]
      /\ Append(out, flight)[Len(out) + 1] = flight
    BY SequenceAppend DEF Flights
<1>2. Flights(Append(out, flight))
    BY <1>1 DEF Flights
<1>3. Sent(Append(out, flight)) = Sent(out) \cup Elements(flight)
    BY <1>1 DEF Sent
<1>4. QED
    BY <1>2, <1>3, Zenon

\* A datagram of one record adds that record to what was sent.
LEMMA SentOne ==
    ASSUME NEW out, Flights(out), NEW record
    PROVE  /\ Flights(Append(out, <<record>>))
           /\ Sent(Append(out, <<record>>)) = Sent(out) \cup {record}
<1>1. Len(<<record>>) \in Nat /\ Elements(<<record>>) = {record}
    BY DEF Elements
<1>2. QED
    BY <1>1, SentAppend, Zenon

\* A driver starts on a datagram with nothing sent.
LEMMA NothingSent == Flights(<<>>) /\ Sent(<<>>) = {} /\ IsSequence(<<>>)
<1>1. <<>> \in Seq({}) /\ Len(<<>>) = 0
    OBVIOUS
<1>2. QED
    BY <1>1 DEF Flights, Sent, IsSequence

-----------------------------------------------------------------------------
(* Record numbers *)

\* No two records of R share their number.
Distinct(R) == \A x, y \in R : x.epoch = y.epoch /\ x.seq = y.seq => x = y

\* The record has a number that the counters have passed.
Numbered(r, next0, next1) ==
    /\ r.epoch \in {0, 1}
    /\ r.seq \in Nat
    /\ r.epoch = 0 => r.seq < next0
    /\ r.epoch = 1 => r.seq < next1

\* Records with different numbers that the counters had not passed stay apart
\* from the ones sent before.
LEMMA FreshFlight ==
    ASSUME NEW R, NEW F, NEW n0 \in Nat, NEW n1 \in Nat, NEW m0 \in Nat, NEW m1 \in Nat,
           Distinct(R), \A r \in R : Numbered(r, n0, n1),
           Distinct(F), \A r \in F : Numbered(r, m0, m1),
           n0 <= m0, n1 <= m1,
           \A r \in F : r.epoch = 0 => n0 <= r.seq,
           \A r \in F : r.epoch = 1 => n1 <= r.seq
    PROVE  Distinct(R \cup F) /\ \A r \in R \cup F : Numbered(r, m0, m1)
<1>1. \A r \in R : Numbered(r, m0, m1)
    BY DEF Numbered
<1>2. ASSUME NEW x \in R, NEW y \in F PROVE ~(x.epoch = y.epoch /\ x.seq = y.seq)
    BY DEF Numbered
<1>3. QED
    BY <1>1, <1>2, Zenon DEF Distinct

\* The next plaintext record.
LEMMA FreshPlaintext ==
    ASSUME NEW R, NEW n0 \in Nat, NEW n1 \in Nat,
           Distinct(R), \A r \in R : Numbered(r, n0, n1),
           NEW record, record.epoch = 0, record.seq = n0
    PROVE  /\ Distinct(R \cup {record})
           /\ \A r \in R \cup {record} : Numbered(r, n0 + 1, n1)
BY DEF Distinct, Numbered

\* A flight of plaintext records takes consecutive numbers.
LEMMA RenumberedFlight ==
    ASSUME NEW flight, Len(flight) \in Nat, NEW next \in Nat,
           \A i \in 1..Len(flight) :
                flight[i].epoch = 0 /\ flight[i] = PlainHandshake(flight[i].seq, flight[i].message)
    PROVE  /\ Renumber(flight, next) =
                [i \in 1..Len(flight) |-> PlainHandshake(next + i - 1, flight[i].message)]
           /\ Len(Renumber(flight, next)) = Len(flight)
           /\ EpochZeroCount(Renumber(flight, next)) = Len(flight)
<1>1. ASSUME NEW f, NEW n \in Nat, \A i \in 1..n : f[i].epoch = 0
      PROVE  PlaintextIn(f, n) = n
    <2>1. {i \in 1..n : f[i].epoch = 0} = 1..n
        BY <1>1, Zenon
    <2>2. Cardinality(1..n) = n
        BY FS_Interval
    <2>3. QED
        BY <2>1, <2>2, Zenon DEF PlaintextIn
<1>2. ASSUME NEW i \in 1..Len(flight)
      PROVE  Renumber(flight, next)[i] = PlainHandshake(next + i - 1, flight[i].message)
    <2>1. PlaintextIn(flight, i - 1) = i - 1
        BY <1>1
    <2>2. Renumber(flight, next)[i] = [flight[i] EXCEPT !.seq = next + (i - 1)]
        BY <2>1, Zenon DEF Renumber
    <2>3. flight[i] = PlainHandshake(flight[i].seq, flight[i].message)
        BY Zenon
    <2>4. next + (i - 1) = next + i - 1
        BY Zenon
    <2>5. QED
        BY <2>2, <2>3, <2>4 DEF PlainHandshake, Record
<1>3. Renumber(flight, next) =
            [i \in 1..Len(flight) |-> PlainHandshake(next + i - 1, flight[i].message)]
    BY <1>2, Zenon DEF Renumber
<1>4. Len(Renumber(flight, next)) = Len(flight)
    BY <1>3
<1>5. \A i \in 1..Len(flight) : Renumber(flight, next)[i].epoch = 0
    <2>1. ASSUME NEW n, NEW m PROVE PlainHandshake(n, m).epoch = 0
        BY Zenon DEF PlainHandshake, Record
    <2>2. QED
        BY <1>2, <2>1
<1>6. EpochZeroCount(Renumber(flight, next)) = Len(flight)
    BY <1>1, <1>4, <1>5, Zenon DEF EpochZeroCount
<1>7. QED
    BY <1>3, <1>4, <1>6, Zenon

-----------------------------------------------------------------------------
(* The client and the records it has sent *)

ClientFields ==
    {"me", "phase", "nextMessage", "lastHello", "cookie", "next0", "next1", "used", "flight",
     "hello", "recorded", "serverFlight", "serverHello", "exchange", "transcript", "key",
     "cke", "finished", "ccs", "seen"}

IsClient(c) == c = [f \in ClientFields |-> c[f]]

\* What a driver made of a datagram so far.
IsStep(s) == s = [f \in {"state", "out", "stop"} |-> s[f]] /\ Flights(s.out)

\* The phases before the client has keys.
Keyless == {"Start", "HelloVerify", "ServerFlight"}

\* What holds of a call of connect at every point of a handler; R are the
\* records that it has sent.
ClientCore(c, R) ==
    /\ IsClient(c)
    /\ c.phase \in Keyless \cup {"ServerFinished", "Done", "Failed", "TimedOut"}
    /\ c.next0 \in Nat
    /\ c.next1 \in Nat
    /\ Distinct(R)
    /\ c.phase # "Failed" => \A r \in R : Numbered(r, c.next0, c.next1)
    /\ \A r \in R : r.epoch = 1 => r.key = c.key /\ c.key[1] = ClientSecret
    /\ c.phase \in {"ServerFinished", "Done"} => c.key[1] = ClientSecret
    /\ c.phase \in Keyless => \A r \in R : r.epoch = 0
    /\ c.phase \in {"Start", "HelloVerify"} => ~c.recorded
    /\ c.phase \in {"ServerFinished", "Done"} => c.recorded
    /\ c.lastHello \in Int
    /\ c.nextMessage = c.lastHello + 1
    /\ IsSequence(c.transcript)
    /\ ~c.recorded => c.transcript = <<>>

\* And between two datagrams.
ClientInv(c, R) ==
    /\ ClientCore(c, R)
    /\ c.phase \in {"HelloVerify", "ServerFlight"} =>
            \E seq : c.flight = <<PlainHandshake(seq, c.hello)>>
    /\ c.phase # "Start" => c.hello.seq = c.lastHello
    /\ c.recorded => c.transcript # <<>> /\ c.transcript[1] = c.hello

\* A keyless client that sends one more plaintext record.
LEMMA CoreSends ==
    ASSUME NEW c, NEW R, ClientCore(c, R), c.phase \in Keyless,
           NEW d, IsClient(d), NEW record, record.epoch = 0, record.seq = c.next0,
           d.next0 = c.next0 + 1, d.next1 = c.next1, d.phase = c.phase, d.key = c.key,
           d.recorded = c.recorded, d.transcript = c.transcript,
           d.lastHello \in Int, d.nextMessage = d.lastHello + 1
    PROVE  ClientCore(d, R \cup {record})
<1>1. /\ Distinct(R \cup {record})
      /\ \A r \in R \cup {record} : Numbered(r, d.next0, d.next1)
    <2>1. /\ c.next0 \in Nat /\ c.next1 \in Nat
          /\ Distinct(R) /\ \A r \in R : Numbered(r, c.next0, c.next1)
        BY Zenon DEF ClientCore, Keyless
    <2>2. /\ Distinct(R \cup {record})
          /\ \A r \in R \cup {record} : Numbered(r, c.next0 + 1, c.next1)
        BY <2>1, FreshPlaintext, Zenon
    <2>3. QED
        BY <2>2, Zenon
<1>2. \A r \in R \cup {record} : r.epoch = 0
    BY Zenon DEF ClientCore
<1>3. d.next0 \in Nat
    BY DEF ClientCore
<1>4. QED
    BY <1>1, <1>2, <1>3 DEF ClientCore

\* A new ClientHello takes a fresh number.
LEMMA NextClientHelloSent ==
    ASSUME NEW s, IsStep(s), NEW R, ClientCore(s.state, R \cup Sent(s.out)),
           s.state.phase \in {"HelloVerify", "ServerFlight"}, ~s.state.recorded
    PROVE  LET y == NextClientHello(s)
               c == s.state
               message == ClientHello(c.nextMessage, c.me, c.cookie)
               flight == <<PlainHandshake(c.next0, message)>>
           IN  /\ IsStep(y)
               /\ y.stop = s.stop
               /\ y.state.lastHello = c.nextMessage
               /\ y.state.hello = message
               /\ \A f \in ClientFields \ {"flight", "next0", "hello", "lastHello", "nextMessage"} :
                    y.state[f] = c[f]
               /\ y.out = Append(s.out, flight)
               /\ ClientInv(y.state, R \cup Sent(y.out))
<1> DEFINE y == NextClientHello(s)
           c == s.state
           message == ClientHello(c.nextMessage, c.me, c.cookie)
           record == PlainHandshake(c.next0, message)
<1>0. IsClient(c)
    BY Zenon DEF ClientCore
<1> HIDE DEF c
<1>1. /\ y = [f \in {"state", "out", "stop"} |-> y[f]]
      /\ y.out = Append(s.out, <<record>>)
      /\ y.stop = s.stop
      /\ y.state.flight = <<record>>
      /\ y.state.next0 = c.next0 + 1
      /\ y.state.hello = message
      /\ y.state.lastHello = c.nextMessage
      /\ y.state.nextMessage = c.nextMessage + 1
      /\ \A f \in ClientFields \ {"flight", "next0", "hello", "lastHello", "nextMessage"} :
            y.state[f] = c[f]
      /\ IsClient(y.state)
    BY <1>0, Zenon DEF NextClientHello, IsStep, IsClient, ClientFields, c
<1> USE DEF c
<1>2. \A f \in {"me", "phase", "next1", "recorded", "transcript", "key"} : y.state[f] = c[f]
    BY <1>1, Zenon DEF ClientFields
<1>3. message.seq = c.nextMessage
    BY Zenon DEF ClientHello, Message
<1>4. record.epoch = 0 /\ record.seq = c.next0
    BY Zenon DEF PlainHandshake, Record
<1> HIDE DEF y, record, message
<1>5. /\ Flights(y.out)
      /\ Sent(y.out) = Sent(s.out) \cup {record}
    <2>1. Flights(s.out)
        BY Zenon DEF IsStep
    <2>2. /\ Flights(Append(s.out, <<record>>))
          /\ Sent(Append(s.out, <<record>>)) = Sent(s.out) \cup {record}
        BY <2>1, SentOne, Zenon
    <2>3. QED
        BY <1>1, <2>2, Zenon
<1>6. R \cup Sent(y.out) = (R \cup Sent(s.out)) \cup {record}
    BY <1>5, Zenon
<1>7. ClientCore(y.state, R \cup Sent(y.out))
    <2>1. c.phase \in Keyless /\ c.nextMessage \in Int
        BY DEF Keyless, ClientCore
    <2>2. ClientCore(y.state, (R \cup Sent(s.out)) \cup {record})
        BY <1>1, <1>2, <1>4, <2>1, CoreSends, Zenon
    <2>3. QED
        BY <1>6, <2>2, Zenon
<1>8. ClientInv(y.state, R \cup Sent(y.out))
    BY <1>1, <1>2, <1>3, <1>7, Zenon DEF ClientInv, record
<1>9. QED
    BY <1>1, <1>5, <1>8, Zenon DEF IsStep, y, record, message
\* The ClientHello again, with the next number.
LEMMA ClientHelloResent ==
    ASSUME NEW s, IsStep(s), NEW R, ClientInv(s.state, R \cup Sent(s.out)),
           s.state.phase \in {"HelloVerify", "ServerFlight"}
    PROVE  LET y == ResendClientHello(s)
               record == PlainHandshake(s.state.next0, s.state.hello)
           IN  /\ IsStep(y)
               /\ y.stop = s.stop
               /\ \A f \in ClientFields \ {"flight", "next0"} : y.state[f] = s.state[f]
               /\ y.out = Append(s.out, <<record>>)
               /\ ClientInv(y.state, R \cup Sent(y.out))
<1> DEFINE y == ResendClientHello(s)
           c == s.state
           record == PlainHandshake(c.next0, c.hello)
           flight == Renumber(c.flight, c.next0)
<1>1. PICK seq : c.flight = <<PlainHandshake(seq, c.hello)>>
    BY Zenon DEF ClientInv
<1>2. flight = <<record>> /\ EpochZeroCount(flight) = 1
    <2>0. c.next0 \in Nat
        BY Zenon DEF ClientInv, ClientCore
    <2> HIDE DEF c
    <2>1. Len(c.flight) = 1
        BY <1>1
    <2>2. c.flight[1].epoch = 0 /\ c.flight[1].message = c.hello
          /\ c.flight[1] = PlainHandshake(c.flight[1].seq, c.flight[1].message)
        BY <1>1 DEF PlainHandshake, Record
    <2>3. /\ Len(c.flight) \in Nat
          /\ \A i \in 1..Len(c.flight) : c.flight[i].epoch = 0
               /\ c.flight[i] = PlainHandshake(c.flight[i].seq, c.flight[i].message)
        BY <2>1, <2>2
    <2>4. /\ flight = [i \in 1..Len(c.flight) |->
                            PlainHandshake(c.next0 + i - 1, c.flight[i].message)]
          /\ EpochZeroCount(flight) = Len(c.flight)
        BY <2>0, <2>3, RenumberedFlight, Zenon
    <2>5. c.next0 + 1 - 1 = c.next0
        BY <2>0
    <2>6. flight = [i \in 1..1 |-> PlainHandshake(c.next0 + i - 1, c.flight[i].message)]
        BY <2>1, <2>4, Zenon
    <2>7. flight[1] = record
        BY <2>2, <2>5, <2>6
    <2>8. flight = <<flight[1]>>
        BY <2>6
    <2>9. QED
        BY <2>1, <2>4, <2>7, <2>8, Zenon
<1> HIDE DEF flight
<1>3. /\ y = [f \in {"state", "out", "stop"} |-> y[f]]
      /\ y.out = Append(s.out, <<record>>)
      /\ y.stop = s.stop
    BY <1>2, Zenon DEF ResendClientHello, IsStep, flight
<1>4. /\ y.state.flight = <<record>>
      /\ y.state.next0 = c.next0 + 1
      /\ IsClient(y.state)
      /\ \A f \in ClientFields \ {"flight", "next0"} : y.state[f] = c[f]
    BY <1>2, Zenon
       DEF ResendClientHello, IsStep, ClientInv, ClientCore, IsClient, ClientFields, flight
<1>5. \A f \in {"phase", "next1", "recorded", "transcript", "key", "lastHello", "nextMessage",
                "hello"} : y.state[f] = c[f]
    BY <1>4, Zenon DEF ClientFields
<1>6. record.epoch = 0 /\ record.seq = c.next0
    BY Zenon DEF PlainHandshake, Record
<1> HIDE DEF y, record
<1>7. /\ Flights(y.out)
      /\ Sent(y.out) = Sent(s.out) \cup {record}
    <2>1. Flights(s.out)
        BY Zenon DEF IsStep
    <2>2. /\ Flights(Append(s.out, <<record>>))
          /\ Sent(Append(s.out, <<record>>)) = Sent(s.out) \cup {record}
        BY <2>1, SentOne, Zenon
    <2>3. QED
        BY <1>3, <2>2, Zenon
<1>8. ClientCore(y.state, R \cup Sent(y.out))
    <2>1. c.phase \in Keyless /\ c.nextMessage = c.lastHello + 1 /\ c.lastHello \in Int
        BY Zenon DEF Keyless, ClientInv, ClientCore
    <2>2. ClientCore(c, R \cup Sent(s.out))
        BY Zenon DEF ClientInv
    <2>3. ClientCore(y.state, (R \cup Sent(s.out)) \cup {record})
        BY <1>4, <1>5, <1>6, <2>1, <2>2, CoreSends, Zenon
    <2>4. R \cup Sent(y.out) = (R \cup Sent(s.out)) \cup {record}
        BY <1>7, Zenon
    <2>5. QED
        BY <2>3, <2>4, Zenon
<1>9. ClientInv(y.state, R \cup Sent(y.out))
    BY <1>4, <1>5, <1>8, Zenon DEF ClientInv, record
<1>10. QED
    BY <1>3, <1>4, <1>7, <1>9, Zenon DEF IsStep, y, record

\* The client's last flight takes two plaintext numbers and one sealed one.
LEMMA FinishedFlightSent ==
    ASSUME NEW s, IsStep(s), NEW R, ClientInv(s.state, R \cup Sent(s.out)),
           s.state.phase = "ServerFinished"
    PROVE  LET y == SendFinishedFlight(s)
               c == s.state
               flight == <<PlainHandshake(c.next0, c.cke), ChangeCipherSpec(c.next0 + 1),
                           Sealed(c.next1, "handshake", c.key, c.finished)>>
           IN  /\ IsStep(y)
               /\ y.stop = s.stop
               /\ \A f \in ClientFields \ {"flight", "next0", "next1"} : y.state[f] = c[f]
               /\ y.out = Append(s.out, flight)
               /\ ClientInv(y.state, R \cup Sent(y.out))
<1> DEFINE y == SendFinishedFlight(s)
           c == s.state
           R0 == R \cup Sent(s.out)
           r1 == PlainHandshake(c.next0, c.cke)
           r2 == ChangeCipherSpec(c.next0 + 1)
           r3 == Sealed(c.next1, "handshake", c.key, c.finished)
           flight == <<r1, r2, r3>>
<1>1. /\ y = [f \in {"state", "out", "stop"} |-> y[f]]
      /\ y.out = Append(s.out, flight)
      /\ y.stop = s.stop
    BY Zenon DEF SendFinishedFlight, IsStep
<1>2. /\ y.state.next0 = c.next0 + 2
      /\ y.state.next1 = c.next1 + 1
      /\ IsClient(y.state)
      /\ \A f \in ClientFields \ {"flight", "next0", "next1"} : y.state[f] = c[f]
    BY Zenon DEF SendFinishedFlight, IsStep, ClientInv, ClientCore, IsClient, ClientFields
<1>3. \A f \in {"phase", "recorded", "transcript", "key", "lastHello", "nextMessage",
                "hello"} : y.state[f] = c[f]
    BY <1>2, Zenon DEF ClientFields
<1>4. /\ r1.epoch = 0 /\ r1.seq = c.next0
      /\ r2.epoch = 0 /\ r2.seq = c.next0 + 1
      /\ r3.epoch = 1 /\ r3.seq = c.next1 /\ r3.key = c.key
    BY Zenon DEF PlainHandshake, ChangeCipherSpec, Sealed, Record
<1> HIDE DEF y, r1, r2, r3
<1>5. Len(flight) = 3 /\ Elements(flight) = {r1, r2, r3}
    BY DEF Elements
<1> HIDE DEF flight
<1>6. /\ Flights(y.out)
      /\ R \cup Sent(y.out) = R0 \cup {r1, r2, r3}
    <2>1. Flights(s.out)
        BY Zenon DEF IsStep
    <2>2. /\ Flights(Append(s.out, flight))
          /\ Sent(Append(s.out, flight)) = Sent(s.out) \cup Elements(flight)
        BY <1>5, <2>1, SentAppend
    <2>3. QED
        BY <1>1, <1>5, <2>2, Zenon
<1>7. ClientCore(c, R0)
    BY Zenon DEF ClientInv
<1>8. ClientCore(y.state, R0 \cup {r1, r2, r3})
    <2>1. /\ Distinct(R0 \cup {r1, r2, r3})
          /\ \A r \in R0 \cup {r1, r2, r3} : Numbered(r, y.state.next0, y.state.next1)
        <3> HIDE DEF R0, c
        <3>0. c.phase = "ServerFinished"
            BY Zenon DEF c
        <3>1. /\ c.next0 \in Nat /\ c.next1 \in Nat
              /\ Distinct(R0) /\ \A r \in R0 : Numbered(r, c.next0, c.next1)
            BY <1>7, <3>0, Zenon DEF ClientCore
        <3>2. QED
            BY <1>2, <1>4, <3>1 DEF Distinct, Numbered
    <2>2. \A r \in R0 \cup {r1, r2, r3} : r.epoch = 1 => r.key = c.key /\ c.key[1] = ClientSecret
        BY <1>4, <1>7 DEF ClientCore
    <2>3. y.state.next0 \in Nat /\ y.state.next1 \in Nat
        BY <1>2, <1>7 DEF ClientCore
    <2> HIDE DEF R0
    <2>4. QED
        BY <1>2, <1>3, <1>7, <2>1, <2>2, <2>3, Zenon DEF ClientCore, Keyless
<1>9. ClientInv(y.state, R \cup Sent(y.out))
    BY <1>3, <1>6, <1>8, Zenon DEF ClientInv
<1>10. QED
    BY <1>1, <1>2, <1>6, <1>9, Zenon DEF IsStep, y, flight, r1, r2, r3
\* A transcript that has begun keeps its first message.
LEMMA TranscriptGrows ==
    ASSUME NEW t, IsSequence(t), NEW m
    PROVE  /\ IsSequence(Append(t, m))
           /\ Append(t, m) # <<>>
           /\ t # <<>> => Append(t, m)[1] = t[1]
           /\ t = <<>> => Append(t, m)[1] = m
           /\ t \o <<m>> = Append(t, m)
<1>1. PICK S : t \in Seq(S)
    BY Zenon DEF IsSequence
<1>2. t \in Seq(S \cup {m})
    BY <1>1
<1>3. /\ Append(t, m) \in Seq(S \cup {m})
      /\ Len(Append(t, m)) = Len(t) + 1
      /\ Len(t) \in Nat
      /\ t # <<>> => Len(t) > 0
      /\ t # <<>> => Append(t, m)[1] = t[1]
      /\ t = <<>> => Append(t, m)[1] = m
      /\ t \o <<m>> = Append(t, m)
    BY <1>2
<1>4. QED
    BY <1>3 DEF IsSequence

\* Handlers that send nothing.
LEMMA ClientKept ==
    ASSUME NEW c, NEW R, ClientInv(c, R), NEW d, IsClient(d),
           \A f \in {"next0", "next1", "key", "lastHello", "nextMessage", "flight", "hello"} :
                d[f] = c[f],
           IsSequence(d.transcript),
           d.recorded => d.transcript # <<>> /\ d.transcript[1] = c.hello,
           ~d.recorded => d.transcript = <<>>,
           c.phase \in {"Start", "HelloVerify"} => ~d.recorded,
           d.phase \in {"ServerFinished", "Done"} => d.recorded,
           \/ d.phase = c.phase
           \/ c.phase # "Start" /\ d.phase = "Failed"
           \/ c.phase \in ClientWaiting /\ d.phase = "TimedOut"
           \/ c.phase = "HelloVerify" /\ d.phase = "ServerFlight"
           \/ c.phase = "ServerFinished" /\ d.phase = "Done"
    PROVE  ClientInv(d, R)
<1>1. /\ d.next0 = c.next0 /\ d.next1 = c.next1 /\ d.key = c.key
      /\ d.lastHello = c.lastHello /\ d.nextMessage = c.nextMessage
      /\ d.flight = c.flight /\ d.hello = c.hello
    BY Zenon
<1>2. ClientCore(d, R)
    BY <1>1, Zenon DEF ClientInv, ClientCore, Keyless, ClientWaiting
<1>3. QED
    BY <1>1, <1>2, Zenon DEF ClientInv, ClientCore, Keyless, ClientWaiting

\* The handler's progress through a datagram that found the client in state c;
\* R are the records sent before.
ClientFold(c, s, R) ==
    /\ IsStep(s)
    /\ ClientInv(s.state, R \cup Sent(s.out))
    /\ s.state.me = c.me
    /\ ~s.stop => s.state.phase = c.phase
    /\ s.state.phase = "Done" => c.phase \in {"ServerFinished", "Done"}

\* A handler that gives up sends nothing more.
LEMMA ClientFails ==
    ASSUME NEW c, NEW s, NEW R, ClientFold(c, s, R), s.state.phase # "Start"
    PROVE  LET y == ClientFailed(s)
           IN  /\ ClientFold(c, y, R)
               /\ y.stop
               /\ y.out = s.out
               /\ y.state = [s.state EXCEPT !.phase = "Failed"]
<1> DEFINE y == ClientFailed(s)
           d == s.state
<1>1. /\ y = [f \in {"state", "out", "stop"} |-> y[f]]
      /\ y.out = s.out
      /\ y.stop = TRUE
      /\ y.state = [d EXCEPT !.phase = "Failed"]
    BY Zenon DEF ClientFold, ClientFailed, IsStep, ClientInv, ClientCore, IsClient, ClientFields
<1>2. /\ y.state.phase = "Failed"
      /\ IsClient(y.state)
      /\ \A f \in ClientFields \ {"phase"} : y.state[f] = d[f]
    BY <1>1, Zenon DEF ClientFold, ClientInv, ClientCore, IsClient, ClientFields
<1>3. /\ \A f \in {"next0", "next1", "key", "lastHello", "nextMessage", "flight", "hello"} :
            y.state[f] = d[f]
      /\ y.state.me = d.me /\ y.state.recorded = d.recorded
      /\ y.state.transcript = d.transcript
    BY <1>2, Zenon DEF ClientFields
<1> HIDE DEF y
<1>4. ClientInv(d, R \cup Sent(s.out))
    BY Zenon DEF ClientFold
<1>5. ClientInv(y.state, R \cup Sent(s.out))
    <2>1. /\ IsSequence(d.transcript)
          /\ d.recorded => d.transcript # <<>> /\ d.transcript[1] = d.hello
          /\ ~d.recorded => d.transcript = <<>>
          /\ d.phase \in {"Start", "HelloVerify"} => ~d.recorded
        BY <1>4, Zenon DEF ClientInv, ClientCore
    <2>2. QED
        BY <1>2, <1>3, <1>4, <2>1, ClientKept, Zenon
<1>6. QED
    BY <1>1, <1>2, <1>3, <1>5, Zenon DEF ClientFold, IsStep, y
\* Dropping the rest of a datagram.
LEMMA Stopped ==
    ASSUME NEW c, NEW n, NEW R, IsStep(n), ClientInv(n.state, R \cup Sent(n.out)),
           n.state.me = c.me, n.state.phase # "Done"
    PROVE  LET y == [n EXCEPT !.stop = TRUE]
           IN  /\ ClientFold(c, y, R)
               /\ y.stop
               /\ y.out = n.out
               /\ y.state = n.state
BY Zenon DEF IsStep, ClientFold

\* The state t that a handler makes of s by changing only the named fields.
Changes(s, t, fields) ==
    /\ IsStep(t)
    /\ t.out = s.out
    /\ t.stop = s.stop
    /\ IsClient(t.state)
    /\ \A f \in ClientFields \ fields : t.state[f] = s.state[f]

\* Changes that matter neither to the numbers nor to the transcript.
LEMMA Harmless ==
    ASSUME NEW c, NEW s, NEW R, ClientFold(c, s, R), NEW t,
           Changes(s, t, {"cookie", "used", "ccs", "seen", "phase"}),
           \/ t.state.phase = s.state.phase
           \/ s.state.phase = "HelloVerify" /\ t.state.phase = "ServerFlight"
    PROVE  ClientInv(t.state, R \cup Sent(t.out)) /\ t.state.me = c.me
<1> DEFINE R0 == R \cup Sent(s.out)
           d == s.state
           e == t.state
<1>1. /\ ClientInv(d, R0) /\ d.me = c.me /\ t.out = s.out /\ IsClient(e)
    BY Zenon DEF ClientFold, Changes
<1>2. /\ \A f \in {"next0", "next1", "key", "lastHello", "nextMessage", "flight", "hello"} :
            e[f] = d[f]
      /\ e.me = d.me /\ e.recorded = d.recorded /\ e.transcript = d.transcript
    BY Zenon DEF Changes, ClientFields
<1>3. /\ e.phase = d.phase \/ (d.phase = "HelloVerify" /\ e.phase = "ServerFlight")
    BY Zenon
<1> HIDE DEF R0, d, e
<1>4. /\ IsSequence(d.transcript)
      /\ d.recorded => d.transcript # <<>> /\ d.transcript[1] = d.hello
      /\ ~d.recorded => d.transcript = <<>>
      /\ d.phase \in {"Start", "HelloVerify"} => ~d.recorded
      /\ d.phase \in {"ServerFinished", "Done"} => d.recorded
    BY <1>1, Zenon DEF ClientInv, ClientCore
<1>5. ClientInv(e, R0)
    BY <1>1, <1>2, <1>3, <1>4, ClientKept, Zenon
<1>6. QED
    BY <1>1, <1>2, <1>5, Zenon DEF R0, e

\* A first or late HelloVerifyRequest that is obeyed.
LEMMA CookieTaken ==
    ASSUME NEW c, NEW s, NEW R, ClientFold(c, s, R), NEW t,
           s.state.phase \in {"HelloVerify", "ServerFlight"}, ~s.state.recorded,
           Changes(s, t, {"cookie", "used", "phase"}), t.state.phase = "ServerFlight"
    PROVE  ClientFold(c, [NextClientHello(t) EXCEPT !.stop = TRUE], R)
<1> DEFINE n == NextClientHello(t)
<1>1. ClientInv(t.state, R \cup Sent(t.out)) /\ t.state.me = c.me
    BY Harmless DEF Changes
<1>2. /\ IsStep(t) /\ ClientCore(t.state, R \cup Sent(t.out)) /\ ~t.state.recorded
    BY <1>1, Zenon DEF Changes, ClientFields, ClientInv
<1>3. /\ IsStep(n)
      /\ ClientInv(n.state, R \cup Sent(n.out))
      /\ n.state.me = t.state.me /\ n.state.phase = "ServerFlight"
    BY <1>2, NextClientHelloSent, Zenon DEF ClientFields
<1> HIDE DEF n
<1>4. QED
    BY <1>1, <1>3, Stopped, Zenon DEF n

\* wait_for_hello_verify, whatever the record.
LEMMA HelloVerifyHandled ==
    ASSUME NEW c, NEW s, NEW R, ClientFold(c, s, R), ~s.stop, c.phase = "HelloVerify", NEW r
    PROVE  ClientFold(c, HelloVerifyRecord(s, r), R)
<1> DEFINE t == [s EXCEPT !.state = [@ EXCEPT !.cookie = Body(r.message),
                                              !.phase = "ServerFlight", !.used = 0]]
<1>1. /\ s.state.phase = "HelloVerify"
      /\ IsStep(s) /\ IsClient(s.state) /\ ~s.state.recorded
    BY Zenon DEF ClientFold, ClientInv, ClientCore
<1>2. ClientFold(c, ClientFailed(s), R)
    BY <1>1, ClientFails, Zenon
<1>3. Changes(s, t, {"cookie", "used", "phase"}) /\ t.state.phase = "ServerFlight"
    BY <1>1, Zenon DEF Changes, IsStep, IsClient, ClientFields
<1>4. HelloVerifyRecord(s, r) \in {s, ClientFailed(s), [NextClientHello(t) EXCEPT !.stop = TRUE]}
    BY Zenon DEF HelloVerifyRecord
<1> HIDE DEF t
<1>5. ClientFold(c, [NextClientHello(t) EXCEPT !.stop = TRUE], R)
    BY <1>1, <1>3, CookieTaken
<1>6. QED
    BY <1>2, <1>4, <1>5, Zenon

\* A HelloVerifyRequest in wait_for_server_flight.
LEMMA LateHelloVerifyHandled ==
    ASSUME NEW c, NEW s, NEW R, ClientFold(c, s, R), ~s.stop, c.phase = "ServerFlight", NEW m
    PROVE  ClientFold(c, HelloVerifyInFlight(s, m), R)
<1> DEFINE t == [s EXCEPT !.state = [s.state EXCEPT !.used = @ + 1, !.cookie = Body(m)]]
           u == [s EXCEPT !.state.used = @ + 1]
           n == ResendClientHello(u)
<1>1. /\ s.state.phase = "ServerFlight"
      /\ IsStep(s) /\ IsClient(s.state)
    BY Zenon DEF ClientFold, ClientInv, ClientCore
<1>2. Changes(s, t, {"cookie", "used", "phase"}) /\ t.state.phase = "ServerFlight"
    BY <1>1, Zenon DEF Changes, IsStep, IsClient, ClientFields
<1>3. /\ Changes(s, u, {"cookie", "used", "ccs", "seen", "phase"})
      /\ u.state.phase = "ServerFlight"
    BY <1>1, Zenon DEF Changes, IsStep, IsClient, ClientFields
<1>4. \/ HelloVerifyInFlight(s, m) = s
      \/ /\ ~s.state.recorded
         /\ HelloVerifyInFlight(s, m) = [NextClientHello(t) EXCEPT !.stop = TRUE]
      \/ HelloVerifyInFlight(s, m) = [n EXCEPT !.stop = TRUE]
    BY Zenon DEF HelloVerifyInFlight
<1> HIDE DEF t, u
<1>5. ASSUME ~s.state.recorded
      PROVE  ClientFold(c, [NextClientHello(t) EXCEPT !.stop = TRUE], R)
    BY <1>1, <1>2, <1>5, CookieTaken
<1>6. ClientInv(u.state, R \cup Sent(u.out)) /\ u.state.me = c.me /\ IsStep(u)
    BY <1>1, <1>3, Harmless DEF Changes
<1>7. /\ IsStep(n)
      /\ ClientInv(n.state, R \cup Sent(n.out))
      /\ n.state.me = c.me /\ n.state.phase = "ServerFlight"
    BY <1>3, <1>6, ClientHelloResent, Zenon DEF ClientFields
<1> HIDE DEF n
<1>8. ClientFold(c, [n EXCEPT !.stop = TRUE], R)
    BY <1>7, Stopped, Zenon
<1>9. QED
    BY <1>4, <1>5, <1>8, Zenon
\* A message of the server's flight that enters the transcript.
LEMMA Recording ==
    ASSUME NEW c, NEW s, NEW R, ClientFold(c, s, R), s.state.phase = "ServerFlight", NEW t,
           Changes(s, t, {"recorded", "serverHello", "exchange", "transcript", "serverFlight"}),
           t.state.recorded, IsSequence(t.state.transcript), t.state.transcript # <<>>,
           t.state.transcript[1] = s.state.hello
    PROVE  /\ ClientInv(t.state, R \cup Sent(t.out))
           /\ t.state.me = c.me
           /\ t.state.phase = "ServerFlight"
<1> DEFINE R0 == R \cup Sent(s.out)
           d == s.state
           e == t.state
<1>1. /\ ClientInv(d, R0) /\ d.me = c.me /\ t.out = s.out /\ IsClient(e)
    BY Zenon DEF ClientFold, Changes
<1>2. /\ \A f \in {"next0", "next1", "key", "lastHello", "nextMessage", "flight", "hello"} :
            e[f] = d[f]
      /\ e.me = d.me /\ e.phase = d.phase
    BY Zenon DEF Changes, ClientFields
<1>3. /\ d.phase = "ServerFlight" /\ e.recorded /\ IsSequence(e.transcript)
      /\ e.transcript # <<>> /\ e.transcript[1] = d.hello
    BY Zenon
<1> HIDE DEF R0, d, e
<1>4. ClientInv(e, R0)
    BY <1>1, <1>2, <1>3, ClientKept, Zenon
<1>5. QED
    BY <1>1, <1>2, <1>3, <1>4, Zenon DEF R0, e

\* The ServerHelloDone makes the client derive its keys and send its last flight.
LEMMA FinishesHandled ==
    ASSUME NEW c, NEW u, NEW R, ClientFold(c, u, R), u.state.phase = "ServerFlight",
           u.state.recorded
    PROVE  ClientFold(c, ClientFinishes(u), R)
<1> DEFINE d == u.state
           cke == ClientKeyExchange(d.nextMessage, d.me, d.serverHello)
           key == KeyMaterial(ClientSecret, d.me, d.serverHello)
           finished == Finished(d.nextMessage + 1, "client", key, Append(d.transcript, cke))
           v == [u EXCEPT !.state =
                    [d EXCEPT !.phase = "ServerFinished", !.used = 0, !.cke = cke, !.key = key,
                              !.finished = finished, !.next1 = 0,
                              !.transcript = d.transcript \o <<cke, finished>>]]
           n == SendFinishedFlight(v)
           e == v.state
           R0 == R \cup Sent(u.out)
<1> ClientFold(c, ClientFailed(u), R)
    BY ClientFails, Zenon
<1>1. ClientFinishes(u) \in {ClientFailed(u), [n EXCEPT !.stop = TRUE]}
    BY Zenon DEF ClientFinishes
<1>2. key[1] = ClientSecret
    BY Zenon DEF KeyMaterial
<1> IsStep(u) /\ ClientInv(d, R0) /\ d.me = c.me
    BY Zenon DEF ClientFold
<1>3. /\ IsClient(d) /\ IsSequence(d.transcript) /\ d.transcript # <<>>
      /\ d.transcript[1] = d.hello
    BY Zenon DEF ClientInv, ClientCore
<1>4. /\ IsSequence(d.transcript \o <<cke, finished>>)
      /\ d.transcript \o <<cke, finished>> # <<>>
      /\ (d.transcript \o <<cke, finished>>)[1] = d.hello
    <2> HIDE DEF cke, finished, d
    <2>1. PICK S : d.transcript \in Seq(S)
        BY <1>3, Zenon DEF IsSequence
    <2>2. d.transcript \in Seq(S \cup {cke, finished}) /\ Len(d.transcript) > 0
        BY <1>3, <2>1
    <2>3. <<cke, finished>> \in Seq(S \cup {cke, finished}) /\ Len(<<cke, finished>>) = 2
        OBVIOUS
    <2> DEFINE q == <<cke, finished>>
    <2> HIDE DEF q
    <2>4. /\ d.transcript \o q \in Seq(S \cup {cke, finished})
          /\ Len(d.transcript \o q) > 0
          /\ (d.transcript \o q)[1] = d.transcript[1]
        BY <2>2, <2>3 DEF q
    <2>5. QED
        BY <1>3, <2>4 DEF IsSequence, q
<1> HIDE DEF key, cke, finished
<1>5. /\ IsStep(v) /\ v.out = u.out
      /\ IsClient(e)
      /\ e.phase = "ServerFinished" /\ e.key = key /\ e.next1 = 0
      /\ e.transcript = d.transcript \o <<cke, finished>>
      /\ e.next0 = d.next0 /\ e.recorded = d.recorded /\ e.lastHello = d.lastHello
      /\ e.nextMessage = d.nextMessage /\ e.hello = d.hello /\ e.me = d.me
    BY <1>3, Zenon DEF IsStep, IsClient, ClientFields
<1> HIDE DEF v
<1>6. ClientInv(e, R0)
    <2>1. /\ ClientInv(d, R0) /\ d.phase = "ServerFlight" /\ d.recorded
        BY Zenon
    <2>2. \A r \in R0 : Numbered(r, d.next0, 0) /\ r.epoch = 0
        BY <2>1 DEF ClientInv, ClientCore, Keyless, Numbered
    <2>3. d.next0 \in Nat /\ Distinct(R0) /\ d.lastHello \in Int
          /\ d.nextMessage = d.lastHello + 1 /\ d.hello.seq = d.lastHello
        BY <2>1, Zenon DEF ClientInv, ClientCore
    <2> HIDE DEF R0, d, e
    <2>4. ClientCore(e, R0)
        BY <1>2, <1>4, <1>5, <2>1, <2>2, <2>3 DEF ClientCore, Keyless
    <2>5. QED
        BY <1>4, <1>5, <2>3, <2>4, Zenon DEF ClientInv
<1>7. /\ IsStep(n)
      /\ ClientInv(n.state, R \cup Sent(n.out))
      /\ n.state.me = c.me /\ n.state.phase = "ServerFinished"
    <2>1. ClientInv(v.state, R \cup Sent(v.out)) /\ v.state.phase = "ServerFinished"
        BY <1>5, <1>6, Zenon
    <2>2. /\ IsStep(n)
          /\ ClientInv(n.state, R \cup Sent(n.out))
          /\ n.state.me = v.state.me /\ n.state.phase = v.state.phase
        BY <1>5, <2>1, FinishedFlightSent, Zenon DEF ClientFields
    <2>3. QED
        BY <1>5, <2>2, Zenon
<1> HIDE DEF n
<1>8. ClientFold(c, [n EXCEPT !.stop = TRUE], R)
    BY <1>7, Stopped
<1>9. QED
    BY <1>1, <1>8, Zenon

\* wait_for_server_flight, whatever the message.
LEMMA ServerFlightHandled ==
    ASSUME NEW c, NEW s, NEW R, ClientFold(c, s, R), ~s.stop, c.phase = "ServerFlight", NEW m
    PROVE  ClientFold(c, ServerFlightMessage(s, m), R)
<1> DEFINE d == s.state
           begun == IF d.recorded THEN d.transcript ELSE Append(d.transcript, d.hello)
           hello == [s EXCEPT !.state =
                        [d EXCEPT !.recorded = TRUE, !.serverHello = Body(m),
                                  !.transcript =
                                      (IF d.recorded THEN @ ELSE Append(@, d.hello)) \o <<m>>,
                                  !.serverFlight = Append(@, m)]]
           exchange == [s EXCEPT !.state = [d EXCEPT !.exchange = m, !.transcript = Append(@, m),
                                                     !.serverFlight = Append(@, m)]]
           done == [s EXCEPT !.state = [d EXCEPT !.transcript = Append(@, m),
                                                 !.serverFlight = Append(@, m)]]
           fields == {"recorded", "serverHello", "exchange", "transcript", "serverFlight"}
<1>1. /\ d.phase = "ServerFlight" /\ IsStep(s) /\ IsClient(d) /\ d.me = c.me
      /\ IsSequence(d.transcript)
      /\ d.recorded => d.transcript # <<>> /\ d.transcript[1] = d.hello
      /\ ~d.recorded => d.transcript = <<>>
    BY Zenon DEF ClientFold, ClientInv, ClientCore
<1>2. \/ ServerFlightMessage(s, m) \in {s, hello, ClientFailed(s), HelloVerifyInFlight(s, m)}
      \/ d.recorded /\ ServerFlightMessage(s, m) \in {exchange, ClientFinishes(done)}
    BY DEF ServerFlightMessage
<1>3. /\ IsSequence(begun) /\ begun # <<>> /\ begun[1] = d.hello
    BY <1>1, TranscriptGrows
<1>4. /\ Changes(s, hello, fields) /\ hello.state.recorded
      /\ hello.state.transcript = begun \o <<m>>
    BY <1>1, Zenon DEF Changes, IsStep, IsClient, ClientFields
<1>5. /\ Changes(s, exchange, fields) /\ exchange.state.recorded = d.recorded
      /\ exchange.state.transcript = Append(d.transcript, m)
    BY <1>1, Zenon DEF Changes, IsStep, IsClient, ClientFields
<1>6. /\ Changes(s, done, fields) /\ done.state.recorded = d.recorded
      /\ done.state.transcript = Append(d.transcript, m)
    BY <1>1, Zenon DEF Changes, IsStep, IsClient, ClientFields
<1> HIDE DEF begun, hello, exchange, done
<1>7. ASSUME NEW t, Changes(s, t, fields), t.state.recorded,
             IsSequence(t.state.transcript), t.state.transcript # <<>>,
             t.state.transcript[1] = d.hello
      PROVE  /\ ClientFold(c, t, R)
             /\ IsStep(t) /\ ClientInv(t.state, R \cup Sent(t.out))
             /\ t.state.me = c.me /\ t.state.phase = "ServerFlight"
    <2>1. /\ ClientInv(t.state, R \cup Sent(t.out))
          /\ t.state.me = c.me
          /\ t.state.phase = "ServerFlight"
        BY <1>1, <1>7, Recording, Zenon
    <2>2. QED
        BY <1>7, <2>1, Zenon DEF ClientFold, Changes
<1>8. ClientFold(c, hello, R)
    <2>1. /\ begun \o <<m>> = Append(begun, m)
          /\ IsSequence(Append(begun, m)) /\ Append(begun, m) # <<>>
          /\ Append(begun, m)[1] = begun[1]
        BY <1>3, TranscriptGrows, Zenon
    <2>2. QED
        BY <1>3, <1>4, <1>7, <2>1, Zenon
<1> ClientFold(c, ClientFailed(s), R) /\ ClientFold(c, HelloVerifyInFlight(s, m), R)
    BY <1>1, ClientFails, LateHelloVerifyHandled, Zenon
<1>9. CASE d.recorded
    <2>1. /\ IsSequence(Append(d.transcript, m)) /\ Append(d.transcript, m) # <<>>
          /\ Append(d.transcript, m)[1] = d.hello
        BY <1>1, <1>9, TranscriptGrows, Zenon
    <2>2. ClientFold(c, exchange, R)
        BY <1>5, <1>7, <1>9, <2>1, Zenon
    <2>3. ClientFold(c, ClientFinishes(done), R)
        <3>1. ClientFold(c, done, R) /\ done.state.phase = "ServerFlight"
            BY <1>6, <1>7, <1>9, <2>1, Zenon
        <3>2. QED
            BY <1>6, <1>9, <3>1, FinishesHandled, Zenon
    <2>4. QED
        BY <1>2, <1>8, <2>2, <2>3, Zenon
<1>10. CASE ~d.recorded
    BY <1>2, <1>8, <1>10, Zenon
<1>11. QED
    BY <1>9, <1>10, Zenon
\* wait_for_server_finished, whatever the record.
LEMMA ServerFinishedHandled ==
    ASSUME NEW c, NEW s, NEW R, ClientFold(c, s, R), ~s.stop, c.phase = "ServerFinished", NEW r
    PROVE  ClientFold(c, ServerFinishedRecord(s, r), R)
<1> DEFINE d == s.state
           ccs == [s EXCEPT !.state.ccs = TRUE]
           seen == [s EXCEPT !.state.seen = @ \cup {r.seq}]
           done == [s EXCEPT !.state = [d EXCEPT !.seen = @ \cup {r.seq}, !.phase = "Done",
                                                 !.transcript = Append(@, r.message)],
                             !.stop = TRUE]
           e == done.state
           R0 == R \cup Sent(s.out)
<1>1. /\ d.phase = "ServerFinished" /\ IsStep(s) /\ IsClient(d) /\ d.me = c.me
      /\ ClientInv(d, R0)
      /\ IsSequence(d.transcript) /\ d.recorded
      /\ d.transcript # <<>> /\ d.transcript[1] = d.hello
    BY Zenon DEF ClientFold, ClientInv, ClientCore
<1>2. ServerFinishedRecord(s, r) \in {s, ccs, ClientFailed(s), ClientFailed(seen), done}
    BY Zenon DEF ServerFinishedRecord
<1>3. Changes(s, ccs, {"cookie", "used", "ccs", "seen", "phase"}) /\ ccs.state.phase = d.phase
    BY <1>1, Zenon DEF Changes, IsStep, IsClient, ClientFields
<1>4. Changes(s, seen, {"cookie", "used", "ccs", "seen", "phase"}) /\ seen.state.phase = d.phase
    BY <1>1, Zenon DEF Changes, IsStep, IsClient, ClientFields
<1>5. /\ IsStep(done) /\ done.out = s.out /\ done.stop /\ IsClient(e)
      /\ e.phase = "Done" /\ e.transcript = Append(d.transcript, r.message)
      /\ e.me = d.me /\ e.recorded = d.recorded
      /\ \A f \in {"next0", "next1", "key", "lastHello", "nextMessage", "flight", "hello"} :
            e[f] = d[f]
    BY <1>1, Zenon DEF IsStep, IsClient, ClientFields
<1> HIDE DEF ccs, seen, done
<1>6. ASSUME NEW t, Changes(s, t, {"cookie", "used", "ccs", "seen", "phase"}),
             t.state.phase = d.phase
      PROVE  ClientFold(c, t, R)
    <2>1. ClientInv(t.state, R \cup Sent(t.out)) /\ t.state.me = c.me
        BY <1>6, Harmless, Zenon
    <2>2. QED
        BY <1>1, <1>6, <2>1, Zenon DEF ClientFold, Changes
<1>7. ClientFold(c, ccs, R) /\ ClientFold(c, seen, R)
    BY <1>3, <1>4, <1>6, Zenon
<1>8. ClientFold(c, ClientFailed(s), R) /\ ClientFold(c, ClientFailed(seen), R)
    BY <1>1, <1>4, <1>7, ClientFails, Zenon
<1>9. ClientInv(e, R0)
    <2>1. /\ IsSequence(e.transcript) /\ e.transcript # <<>> /\ e.transcript[1] = d.hello
        BY <1>1, <1>5, TranscriptGrows
    <2> HIDE DEF R0, d, e
    <2>2. QED
        BY <1>1, <1>5, <2>1, ClientKept, Zenon
<1>10. ClientFold(c, done, R)
    BY <1>1, <1>5, <1>9, Zenon DEF ClientFold
<1>11. QED
    BY <1>2, <1>7, <1>8, <1>10, Zenon

\* A record of a datagram, and the whole of one.
LEMMA ClientRecordHandled ==
    ASSUME NEW c, NEW s, NEW R, ClientFold(c, s, R), NEW r
    PROVE  ClientFold(c, Unless(s, ClientRecord(c.phase, s, r)), R)
<1>1. CASE s.stop
    BY <1>1, Zenon DEF Unless
<1>2. CASE ~s.stop
    <2>1. CASE c.phase = "HelloVerify"
        BY <1>2, <2>1, HelloVerifyHandled, Zenon DEF Unless, ClientRecord
    <2>2. CASE c.phase = "ServerFlight"
        <3>1. s.state.phase # "Start"
            BY <1>2, <2>2, Zenon DEF ClientFold
        <3>2. ClientFold(c, ServerFlightRecord(s, r), R)
            BY <1>2, <2>2, <3>1, ServerFlightHandled, ClientFails, Zenon DEF ServerFlightRecord
        <3>3. QED
            BY <1>2, <2>2, <3>2, Zenon DEF Unless, ClientRecord
    <2>3. CASE c.phase = "ServerFinished"
        BY <1>2, <2>3, ServerFinishedHandled, Zenon DEF Unless, ClientRecord
    <2>4. CASE c.phase \notin {"HelloVerify", "ServerFlight", "ServerFinished"}
        BY <1>2, <2>4, Zenon DEF Unless, ClientRecord
    <2>5. QED
        BY <2>1, <2>2, <2>3, <2>4, Zenon
<1>3. QED
    BY <1>1, <1>2, Zenon

\* The state in which the driver starts on the records of a datagram.
Begun(c, records) ==
    IF c.phase = "ServerFinished" THEN AnswersRepeatedFlight(Step(c), records) ELSE Step(c)

\* after[n]: the driver has handled n records.
IsClientTrace(c, records, n, after) ==
    after = [k \in 0..n |->
                IF k = 0 THEN Begun(c, records)
                ELSE Unless(after[k - 1], ClientRecord(c.phase, after[k - 1], records[k]))]

\* The recursive function in ClientDatagram exists, for every number of records.
LEMMA ClientTraceExists ==
    ASSUME NEW c, NEW records, NEW n \in Nat
    PROVE  \E after : IsClientTrace(c, records, n, after)
<1> DEFINE S == {k \in Nat : \E f : IsClientTrace(c, records, k, f)}
<1>1. 0 \in S
    <2>1. IsClientTrace(c, records, 0, [k \in 0..0 |-> Begun(c, records)])
        BY DEF IsClientTrace
    <2>2. QED
        BY <2>1, Zenon
<1>2. ASSUME NEW k \in Nat, k \in S PROVE k + 1 \in S
    <2>1. PICK f : IsClientTrace(c, records, k, f)
        BY <1>2, Zenon
    <2> DEFINE g == [j \in 0..(k + 1) |->
                        IF j <= k THEN f[j]
                        ELSE Unless(f[k], ClientRecord(c.phase, f[k], records[k + 1]))]
    <2>2. ASSUME NEW j \in 0..(k + 1)
          PROVE  g[j] = IF j = 0 THEN Begun(c, records)
                        ELSE Unless(g[j - 1], ClientRecord(c.phase, g[j - 1], records[j]))
        <3>1. CASE j = 0
            BY <2>1, <3>1 DEF IsClientTrace
        <3>2. CASE j # 0 /\ j <= k
            BY <2>1, <3>2 DEF IsClientTrace
        <3>3. CASE j = k + 1
            BY <3>3
        <3>4. QED
            BY <3>1, <3>2, <3>3
    <2>3. IsClientTrace(c, records, k + 1, g)
        <3>1. g = [j \in 0..(k + 1) |-> g[j]]
            BY Zenon
        <3> HIDE DEF g
        <3>2. QED
            BY <2>2, <3>1, Zenon DEF IsClientTrace
    <2>4. QED
        BY <2>3
<1>3. Nat \subseteq S
    <2> HIDE DEF S
    <2>1. QED
        BY <1>1, <1>2, Induction, Zenon
<1>4. QED
    BY <1>3, Zenon
\* What the driver does before it looks at the records of a datagram.
LEMMA BegunHandled ==
    ASSUME NEW c, NEW R, ClientInv(c, R), NEW records
    PROVE  LET s == Begun(c, records)
           IN  ClientFold(c, s, R) /\ s.state.phase = c.phase
<1> DEFINE s == Step(c)
           t == [s EXCEPT !.state.used = @ + 1]
           n == SendFinishedFlight(t)
<1>1. ClientFold(c, s, R) /\ s.state = c
    <2>1. s.state = c /\ s.out = <<>> /\ s.stop = FALSE
          /\ s = [f \in {"state", "out", "stop"} |-> s[f]]
        BY Zenon DEF Step
    <2>2. R \cup Sent(s.out) = R /\ Flights(s.out)
        BY <2>1, NothingSent, Zenon
    <2> HIDE DEF s
    <2>3. QED
        BY <2>1, <2>2, Zenon DEF ClientFold, IsStep
<1>2. CASE c.phase = "ServerFinished"
    <2>1. /\ Changes(s, t, {"cookie", "used", "ccs", "seen", "phase"})
          /\ t.state.phase = "ServerFinished"
        BY <1>1, <1>2, Zenon
           DEF Changes, ClientFold, IsStep, ClientInv, ClientCore, IsClient, ClientFields
    <2>2. Begun(c, records) \in {s, n}
        BY Zenon DEF Begun, AnswersRepeatedFlight
    <2> HIDE DEF s, t
    <2>3. ClientInv(t.state, R \cup Sent(t.out)) /\ t.state.me = c.me /\ IsStep(t)
        BY <1>1, <1>2, <2>1, Harmless DEF Changes
    <2>4. /\ IsStep(n)
          /\ ClientInv(n.state, R \cup Sent(n.out))
          /\ n.state.me = t.state.me /\ n.state.phase = t.state.phase
        BY <2>1, <2>3, FinishedFlightSent, Zenon DEF ClientFields
    <2> HIDE DEF n
    <2>5. ClientFold(c, n, R) /\ n.state.phase = c.phase
        BY <1>2, <2>1, <2>3, <2>4, Zenon DEF ClientFold
    <2>6. QED
        BY <1>1, <2>2, <2>5, Zenon
<1>3. CASE c.phase # "ServerFinished"
    <2>1. Begun(c, records) = s
        BY <1>3, Zenon DEF Begun
    <2> HIDE DEF s
    <2>2. QED
        BY <1>1, <2>1, Zenon
<1>4. QED
    BY <1>2, <1>3, Zenon

\* A datagram is handled record by record, and the invariant holds in between.
LEMMA ClientTrace ==
    ASSUME NEW c, NEW R, ClientInv(c, R), NEW records, Len(records) \in Nat
    PROVE  \E after :
              /\ after[0] = Begun(c, records)
              /\ ClientDatagram(c, records) = after[Len(records)]
              /\ \A n \in Nat : n < Len(records) =>
                    after[n + 1] = Unless(after[n], ClientRecord(c.phase, after[n], records[n + 1]))
              /\ \A n \in 0..Len(records) : ClientFold(c, after[n], R)
<1> DEFINE after[n \in 0..Len(records)] ==
               IF n = 0 THEN Begun(c, records)
               ELSE Unless(after[n - 1], ClientRecord(c.phase, after[n - 1], records[n]))
<1>1. IsClientTrace(c, records, Len(records), after)
    <2>1. \E f : IsClientTrace(c, records, Len(records), f)
        BY ClientTraceExists, Zenon
    <2>2. QED
        BY <2>1, Zenon DEF IsClientTrace
<1>2. ClientDatagram(c, records) = after[Len(records)]
    BY Zenon DEF ClientDatagram, Begun
<1> HIDE DEF after
<1>3. after[0] = Begun(c, records)
    BY <1>1 DEF IsClientTrace
<1>4. ASSUME NEW n \in Nat, n < Len(records)
      PROVE  after[n + 1] = Unless(after[n], ClientRecord(c.phase, after[n], records[n + 1]))
    <2>1. n + 1 \in 0..Len(records) /\ n + 1 # 0 /\ (n + 1) - 1 = n
        BY <1>4
    <2>2. QED
        BY <1>1, <2>1, Zenon DEF IsClientTrace
<1> DEFINE S == {n \in Nat : n <= Len(records) => ClientFold(c, after[n], R)}
<1>5. 0 \in S
    BY <1>3, BegunHandled, Zenon
<1>6. ASSUME NEW n \in Nat, n \in S PROVE n + 1 \in S
    <2> SUFFICES ASSUME n + 1 <= Len(records) PROVE ClientFold(c, after[n + 1], R)
        OBVIOUS
    <2>1. n <= Len(records) /\ n < Len(records)
        OBVIOUS
    <2>2. ClientFold(c, after[n], R)
        BY <1>6, <2>1, Zenon
    <2>3. ClientFold(c, Unless(after[n], ClientRecord(c.phase, after[n], records[n + 1])), R)
        BY <2>2, ClientRecordHandled, Zenon
    <2>4. after[n + 1] = Unless(after[n], ClientRecord(c.phase, after[n], records[n + 1]))
        BY <1>4, <2>1, Zenon
    <2>5. QED
        BY <2>3, <2>4, Zenon
<1>7. Nat \subseteq S
    <2> HIDE DEF S
    <2>1. QED
        BY <1>5, <1>6, Induction, Zenon
<1>8. \A n \in 0..Len(records) : ClientFold(c, after[n], R)
    BY <1>7
<1>9. QED
    BY <1>2, <1>3, <1>4, <1>8, Zenon

\* A whole datagram leaves the client where its invariant says.
LEMMA ClientHandles ==
    ASSUME NEW c, NEW R, ClientInv(c, R), NEW records, Len(records) \in Nat
    PROVE  ClientFold(c, ClientDatagram(c, records), R)
<1>1. Len(records) \in 0..Len(records)
    OBVIOUS
<1>2. QED
    BY <1>1, ClientTrace

-----------------------------------------------------------------------------
(* The ClientHellos and the cookies in them *)

PlainMessage(r) == r.epoch = 0 /\ r.content = "handshake"
Hello(r) == PlainMessage(r) /\ r.message.type = "ClientHello"
HelloVerify(r) == PlainMessage(r) /\ r.message.type = "HelloVerifyRequest"

\* The accept whose cookie a ClientHello carries; 0 when it has none.
CookieOf(m) == Body(m).cookie
AcceptOf(cookie) == IF cookie = None THEN 0 ELSE cookie[2]
Cookies(me, runs) == {None} \cup {Cookie(i, me) : i \in 1..runs}

\* The ClientHellos of a client in state c that has sent the records C, while
\* accept has been called `runs` times.
HelloInv(c, C, runs) ==
    /\ c.phase = "Start" => C = {} /\ c.cookie = None
    /\ c.phase # "Start" =>
            \E k \in Cookies(c.me, runs) : c.hello = ClientHello(c.lastHello, c.me, k)
    /\ c.phase = "ServerFinished" => c.cke.type = "ClientKeyExchange"
    /\ \A r \in C : Hello(r) =>
            /\ \E k \in Cookies(c.me, runs) : r.message = ClientHello(r.message.seq, c.me, k)
            /\ r.seq \in Nat
            /\ r.message.seq \in Int
            /\ r.message.seq <= c.lastHello
            /\ r.message.seq = c.lastHello => r.message = c.hello
            /\ AcceptOf(CookieOf(r.message)) <= AcceptOf(CookieOf(c.hello))
    /\ \A x, y \in C : Hello(x) /\ Hello(y) /\ x.seq <= y.seq =>
            AcceptOf(CookieOf(x.message)) <= AcceptOf(CookieOf(y.message))

\* r is the run-th accept's answer to the ClientHello z, which does not carry
\* that accept's cookie.
Answers(r, z, run) ==
    LET cookie == Cookie(run, Body(z.message).random)
    IN  /\ Hello(z)
        /\ r = PlainHandshake(z.seq, HelloVerifyRequest(z.message.seq, cookie))
        /\ CookieOf(z.message) # cookie
        /\ AcceptOf(CookieOf(z.message)) <= run

-----------------------------------------------------------------------------
(* The ClientHellos of a datagram's answer, and what opens a session *)

\* The record that makes a client open its session.
Confirms(r, d) ==
    /\ r.epoch = 1
    /\ r.content = "handshake"
    /\ \E t : /\ Body(r.message) = <<"server", d.key, t>>
              /\ d.transcript = Append(t, r.message)

\* The ClientHello that the client sends, if any, is the one it sent before.
SameHello(c, s) ==
    /\ s.state.hello = c.hello
    /\ s.state.lastHello = c.lastHello
    /\ \A r \in Sent(s.out) : Hello(r) => r = PlainHandshake(c.next0, c.hello)

\* Or it is a new one, with the cookie of a HelloVerifyRequest that answers
\* the one it sent last.
NewHello(c, s, m) ==
    /\ m.seq = c.lastHello
    /\ s.state.hello = ClientHello(c.nextMessage, c.me, Body(m))
    /\ s.state.lastHello = c.nextMessage
    /\ \A r \in Sent(s.out) : Hello(r) => r = PlainHandshake(c.next0, s.state.hello)

ClientRun(c, s, records) ==
    /\ \/ SameHello(c, s)
       \/ /\ s.stop
          /\ \E i \in 1..Len(records) :
                HelloVerify(records[i]) /\ NewHello(c, s, records[i].message)
    /\ ~s.stop => \A f \in {"me", "hello", "lastHello", "nextMessage"} : s.state[f] = c[f]
    /\ ~s.stop /\ c.phase # "ServerFinished" => Sent(s.out) = {} /\ s.state.next0 = c.next0
    /\ s.state.phase = "ServerFinished" => s.state.cke.type = "ClientKeyExchange"
    /\ c.phase \notin ClientWaiting => s = Step(c)
    /\ c.phase \in ClientWaiting => s.state.phase # "Start"
    /\ s.state.phase = "Done" /\ c.phase # "Done" =>
            s.stop /\ \E i \in 1..Len(records) : Confirms(records[i], s.state)

\* A handler that neither sends nor touches the ClientHello.
LEMMA QuietRun ==
    ASSUME NEW c, NEW s, NEW records, ClientRun(c, s, records), ~s.stop,
           c.phase \in ClientWaiting, NEW y, y.out = s.out,
           \A f \in {"me", "hello", "lastHello", "nextMessage", "next0"} :
                y.state[f] = s.state[f],
           y.state.phase # "Start",
           y.state.phase = "ServerFinished" => y.state.cke.type = "ClientKeyExchange",
           y.state.phase = "Done" =>
                y.stop /\ \E i \in 1..Len(records) : Confirms(records[i], y.state)
    PROVE  ClientRun(c, y, records)
<1>1. SameHello(c, s)
    BY Zenon DEF ClientRun, SameHello
<1>2. QED
    BY <1>1 DEF ClientRun, SameHello

\* A client that gives up.
LEMMA FailedRun ==
    ASSUME NEW c, NEW R, NEW s, NEW records, ClientFold(c, s, R), ClientRun(c, s, records),
           ~s.stop, c.phase \in ClientWaiting, NEW t,
           ClientFold(c, t, R), t.state.phase # "Start", t.out = s.out,
           \A f \in {"me", "hello", "lastHello", "nextMessage", "next0"} :
                t.state[f] = s.state[f]
    PROVE  ClientRun(c, ClientFailed(t), records)
<1> DEFINE y == ClientFailed(t)
<1>1. y.out = t.out /\ y.state = [t.state EXCEPT !.phase = "Failed"]
    BY ClientFails, Zenon
<1>2. IsClient(t.state)
    BY Zenon DEF ClientFold, ClientInv, ClientCore
<1>3. /\ y.state.phase = "Failed"
      /\ \A f \in {"me", "hello", "lastHello", "nextMessage", "next0"} : y.state[f] = t.state[f]
    BY <1>1, <1>2, Zenon DEF IsClient, ClientFields
<1> HIDE DEF y
<1>4. QED
    <2>1. /\ y.out = s.out
          /\ \A f \in {"me", "hello", "lastHello", "nextMessage", "next0"} :
                y.state[f] = s.state[f]
        BY <1>1, <1>3, Zenon
    <2>2. QED
        BY <1>3, <2>1, QuietRun, Zenon DEF y

\* A HelloVerifyRequest that answers the last ClientHello and is obeyed.
LEMMA ObeyedRun ==
    ASSUME NEW c, NEW R, NEW s, NEW records, ClientFold(c, s, R), ClientRun(c, s, records),
           ~s.stop, c.phase \in {"HelloVerify", "ServerFlight"}, ~s.state.recorded,
           NEW i \in 1..Len(records), HelloVerify(records[i]),
           records[i].message.seq = s.state.lastHello,
           NEW t, Changes(s, t, {"cookie", "used", "phase"}), t.state.phase = "ServerFlight",
           t.state.cookie = Body(records[i].message)
    PROVE  ClientRun(c, [NextClientHello(t) EXCEPT !.stop = TRUE], records)
<1> DEFINE n == NextClientHello(t)
           y == [n EXCEPT !.stop = TRUE]
           m == records[i].message
           message == ClientHello(c.nextMessage, c.me, Body(m))
           record == PlainHandshake(c.next0, message)
<1>1. ClientInv(t.state, R \cup Sent(t.out)) /\ t.state.me = c.me
    <2>1. Changes(s, t, {"cookie", "used", "ccs", "seen", "phase"})
        BY Zenon DEF Changes
    <2>2. s.state.phase \in {"HelloVerify", "ServerFlight"}
        BY Zenon DEF ClientFold
    <2>3. QED
        BY <2>1, <2>2, Harmless, Zenon
<1>2. /\ \A f \in {"me", "hello", "lastHello", "nextMessage"} : t.state[f] = c[f]
      /\ t.state.next0 = c.next0 /\ t.out = s.out /\ Sent(s.out) = {}
      /\ s.state.lastHello = c.lastHello
      /\ IsStep(t) /\ ~t.state.recorded
    BY Zenon DEF Changes, ClientFields, ClientRun
<1>3. ClientCore(t.state, R \cup Sent(t.out))
    BY <1>1, Zenon DEF ClientInv
<1>4. /\ IsStep(n)
      /\ n.state.lastHello = c.nextMessage
      /\ n.state.hello = message
      /\ n.state.phase = "ServerFlight"
      /\ n.out = Append(s.out, <<record>>)
    <2>1. t.state.phase \in {"HelloVerify", "ServerFlight"}
        BY Zenon
    <2>2. /\ IsStep(n)
          /\ n.state.lastHello = t.state.nextMessage
          /\ n.state.hello = ClientHello(t.state.nextMessage, t.state.me, t.state.cookie)
          /\ \A f \in ClientFields \ {"flight", "next0", "hello", "lastHello", "nextMessage"} :
                n.state[f] = t.state[f]
          /\ n.out = Append(t.out, <<PlainHandshake(t.state.next0,
                ClientHello(t.state.nextMessage, t.state.me, t.state.cookie))>>)
        BY <1>2, <1>3, <2>1, NextClientHelloSent, Zenon
    <2>3. n.state.phase = t.state.phase
        BY <2>2, Zenon DEF ClientFields
    <2>4. /\ t.state.nextMessage = c.nextMessage /\ t.state.me = c.me
          /\ t.state.cookie = Body(m) /\ t.state.next0 = c.next0 /\ t.out = s.out
        BY <1>2, Zenon
    <2> HIDE DEF n, m
    <2>5. QED
        BY <2>2, <2>3, <2>4, Zenon
<1> HIDE DEF n, record
<1>5. Sent(n.out) = {record}
    <2>1. Flights(s.out)
        BY Zenon DEF ClientFold, IsStep
    <2>2. QED
        BY <1>2, <1>4, <2>1, SentOne
<1>6. y.state = n.state /\ y.out = n.out /\ y.stop
    BY <1>4, Zenon DEF IsStep
<1> HIDE DEF y, message
<1>7. NewHello(c, y, m)
    BY <1>2, <1>4, <1>5, <1>6 DEF NewHello, record, message
<1>8. QED
    BY <1>4, <1>6, <1>7, Zenon DEF ClientRun, ClientWaiting, y, n
\* wait_for_hello_verify.
LEMMA HelloVerifyRun ==
    ASSUME NEW c, NEW R, NEW s, NEW records, ClientFold(c, s, R), ClientRun(c, s, records),
           ~s.stop, c.phase = "HelloVerify", NEW i \in 1..Len(records)
    PROVE  ClientRun(c, HelloVerifyRecord(s, records[i]), records)
<1> DEFINE r == records[i]
           t == [s EXCEPT !.state = [@ EXCEPT !.cookie = Body(r.message),
                                              !.phase = "ServerFlight", !.used = 0]]
<1>1. /\ s.state.phase = "HelloVerify" /\ c.phase \in ClientWaiting
      /\ IsStep(s) /\ IsClient(s.state) /\ ~s.state.recorded
    BY Zenon DEF ClientFold, ClientInv, ClientCore, ClientWaiting
<1>2. /\ Changes(s, t, {"cookie", "used", "phase"}) /\ t.state.phase = "ServerFlight"
      /\ t.state.cookie = Body(r.message)
    BY <1>1, Zenon DEF Changes, IsStep, IsClient, ClientFields
<1>3. \/ HelloVerifyRecord(s, r) \in {s, ClientFailed(s)}
      \/ /\ HelloVerify(r) /\ r.message.seq = s.state.lastHello
         /\ HelloVerifyRecord(s, r) = [NextClientHello(t) EXCEPT !.stop = TRUE]
    BY Zenon DEF HelloVerifyRecord, HelloVerify, PlainMessage
<1>4. ClientRun(c, ClientFailed(s), records)
    BY <1>1, FailedRun, Zenon
<1> HIDE DEF t
<1>5. ASSUME HelloVerify(r), r.message.seq = s.state.lastHello
      PROVE  ClientRun(c, [NextClientHello(t) EXCEPT !.stop = TRUE], records)
    BY <1>1, <1>2, <1>5, ObeyedRun, Zenon
<1>6. QED
    BY <1>3, <1>4, <1>5, Zenon

\* A HelloVerifyRequest in wait_for_server_flight.
LEMMA LateHelloVerifyRun ==
    ASSUME NEW c, NEW R, NEW s, NEW records, ClientFold(c, s, R), ClientRun(c, s, records),
           ~s.stop, c.phase = "ServerFlight", NEW i \in 1..Len(records),
           HelloVerify(records[i])
    PROVE  ClientRun(c, HelloVerifyInFlight(s, records[i].message), records)
<1> DEFINE m == records[i].message
           t == [s EXCEPT !.state = [s.state EXCEPT !.used = @ + 1, !.cookie = Body(m)]]
           u == [s EXCEPT !.state.used = @ + 1]
           n == ResendClientHello(u)
           y == [n EXCEPT !.stop = TRUE]
           record == PlainHandshake(c.next0, c.hello)
<1>1. /\ s.state.phase = "ServerFlight" /\ IsStep(s) /\ IsClient(s.state)
    BY Zenon DEF ClientFold, ClientInv, ClientCore
<1>2. /\ Changes(s, t, {"cookie", "used", "phase"}) /\ t.state.phase = "ServerFlight"
      /\ t.state.cookie = Body(m)
    BY <1>1, Zenon DEF Changes, IsStep, IsClient, ClientFields
<1>3. /\ Changes(s, u, {"cookie", "used", "ccs", "seen", "phase"})
      /\ u.state.phase = "ServerFlight"
      /\ \A f \in {"hello", "lastHello", "nextMessage", "next0", "me"} : u.state[f] = s.state[f]
    BY <1>1, Zenon DEF Changes, IsStep, IsClient, ClientFields
<1>4. \/ HelloVerifyInFlight(s, m) = s
      \/ /\ ~s.state.recorded /\ m.seq = s.state.lastHello
         /\ HelloVerifyInFlight(s, m) = [NextClientHello(t) EXCEPT !.stop = TRUE]
      \/ HelloVerifyInFlight(s, m) = y
    BY Zenon DEF HelloVerifyInFlight
<1> HIDE DEF t, u
<1>5. ASSUME ~s.state.recorded, m.seq = s.state.lastHello
      PROVE  ClientRun(c, [NextClientHello(t) EXCEPT !.stop = TRUE], records)
    BY <1>1, <1>2, <1>5, ObeyedRun, Zenon
<1>6. ClientRun(c, y, records)
    <2>1. ClientInv(u.state, R \cup Sent(u.out)) /\ IsStep(u) /\ u.out = s.out
        BY <1>1, <1>3, Harmless, Zenon DEF Changes
    <2>2. /\ IsStep(n)
          /\ \A f \in ClientFields \ {"flight", "next0"} : n.state[f] = u.state[f]
          /\ n.out = Append(u.out, <<PlainHandshake(u.state.next0, u.state.hello)>>)
        BY <1>3, <2>1, ClientHelloResent, Zenon
    <2>3. /\ n.state.hello = u.state.hello /\ n.state.lastHello = u.state.lastHello
          /\ n.state.phase = u.state.phase
        BY <2>2, Zenon DEF ClientFields
    <2>4. /\ u.state.hello = c.hello /\ u.state.lastHello = c.lastHello
          /\ u.state.next0 = c.next0 /\ Sent(s.out) = {}
        BY <1>3, Zenon DEF ClientRun
    <2> HIDE DEF n
    <2>5. Sent(n.out) = {record}
        <3>1. Flights(s.out)
            BY <1>1, Zenon DEF IsStep
        <3>2. QED
            BY <2>1, <2>2, <2>4, <3>1, SentOne
    <2>6. y.state = n.state /\ y.out = n.out /\ y.stop
        BY <2>2, Zenon DEF IsStep
    <2> HIDE DEF y
    <2>7. SameHello(c, y)
        BY <2>3, <2>4, <2>5, <2>6, Zenon DEF SameHello
    <2>8. QED
        BY <1>3, <2>3, <2>6, <2>7, Zenon DEF ClientRun, ClientWaiting
<1>7. QED
    BY <1>4, <1>5, <1>6, Zenon

\* The flight with the client's Finished holds no ClientHello.
LEMMA FinishedFlightRun ==
    ASSUME NEW out, Flights(out), NEW n0, NEW n1, NEW cke, cke.type = "ClientKeyExchange",
           NEW key, NEW finished
    PROVE  LET flight == <<PlainHandshake(n0, cke), ChangeCipherSpec(n0 + 1),
                           Sealed(n1, "handshake", key, finished)>>
           IN  \A r \in Sent(Append(out, flight)) : Hello(r) => r \in Sent(out)
<1> DEFINE r1 == PlainHandshake(n0, cke)
           r2 == ChangeCipherSpec(n0 + 1)
           r3 == Sealed(n1, "handshake", key, finished)
           flight == <<r1, r2, r3>>
<1>1. ~Hello(r1) /\ ~Hello(r2) /\ ~Hello(r3)
    BY DEF Hello, PlainMessage, PlainHandshake, ChangeCipherSpec, Sealed, Record
<1> HIDE DEF r1, r2, r3
<1>2. Len(flight) \in Nat /\ Elements(flight) = {r1, r2, r3}
    BY DEF Elements
<1> HIDE DEF flight
<1>3. Sent(Append(out, flight)) = Sent(out) \cup Elements(flight)
    BY <1>2, SentAppend, Zenon
<1>4. QED
    BY <1>1, <1>2, <1>3, Zenon DEF flight, r1, r2, r3
\* What build_client_finished_flight leaves alone.
LEMMA FinishedFlightFields ==
    ASSUME NEW v, IsStep(v), IsClient(v.state)
    PROVE  LET n == SendFinishedFlight(v)
               d == v.state
           IN  /\ IsStep(n)
               /\ n.stop = v.stop
               /\ \A f \in {"me", "hello", "lastHello", "nextMessage", "phase", "cke"} :
                    n.state[f] = d[f]
               /\ n.out = Append(v.out,
                    <<PlainHandshake(d.next0, d.cke), ChangeCipherSpec(d.next0 + 1),
                      Sealed(d.next1, "handshake", d.key, d.finished)>>)
<1> DEFINE n == SendFinishedFlight(v)
           d == v.state
           flight == <<PlainHandshake(d.next0, d.cke), ChangeCipherSpec(d.next0 + 1),
                       Sealed(d.next1, "handshake", d.key, d.finished)>>
<1>1. Len(flight) \in Nat
    BY Zenon
<1>2. /\ n = [f \in {"state", "out", "stop"} |-> n[f]]
      /\ n.stop = v.stop /\ n.out = Append(v.out, flight)
      /\ \A f \in {"me", "hello", "lastHello", "nextMessage", "phase", "cke"} :
            n.state[f] = d[f]
    BY Zenon DEF SendFinishedFlight, IsStep, IsClient, ClientFields
<1> HIDE DEF n, flight
<1>3. Flights(n.out)
    <2>1. Flights(v.out)
        BY Zenon DEF IsStep
    <2>2. QED
        BY <1>1, <1>2, <2>1, SentAppend, Zenon
<1>4. QED
    BY <1>2, <1>3, Zenon DEF IsStep, n, flight

\* The client's key exchange and Finished.
LEMMA FinishesRun ==
    ASSUME NEW c, NEW s, NEW records, ClientRun(c, s, records), ~s.stop,
           c.phase = "ServerFlight", NEW u,
           Changes(s, u, {"recorded", "serverHello", "exchange", "transcript", "serverFlight"})
    PROVE  ClientRun(c, ClientFinishes(u), records)
<1> DEFINE d == u.state
           cke == ClientKeyExchange(d.nextMessage, d.me, d.serverHello)
           key == KeyMaterial(ClientSecret, d.me, d.serverHello)
           finished == Finished(d.nextMessage + 1, "client", key, Append(d.transcript, cke))
           v == [u EXCEPT !.state =
                    [d EXCEPT !.phase = "ServerFinished", !.used = 0, !.cke = cke, !.key = key,
                              !.finished = finished, !.next1 = 0,
                              !.transcript = d.transcript \o <<cke, finished>>]]
           n == SendFinishedFlight(v)
           y == [n EXCEPT !.stop = TRUE]
           failed == ClientFailed(u)
<1>1. ClientFinishes(u) \in {failed, y}
    BY Zenon DEF ClientFinishes
<1>2. cke.type = "ClientKeyExchange"
    BY Zenon DEF ClientKeyExchange, Message
<1>3. /\ IsStep(u) /\ IsClient(d) /\ u.out = s.out
      /\ \A f \in {"me", "hello", "lastHello", "nextMessage"} : d[f] = c[f]
      /\ Sent(s.out) = {}
    BY Zenon DEF Changes, ClientFields, ClientRun
<1> ClientRun(c, failed, records)
    <2>1. /\ failed.out = s.out /\ failed.state.phase = "Failed"
          /\ \A f \in {"me", "hello", "lastHello", "nextMessage", "next0"} :
                failed.state[f] = d[f]
        BY <1>3, Zenon DEF ClientFailed, IsStep, IsClient, ClientFields
    <2>2. \A f \in {"me", "hello", "lastHello", "nextMessage", "next0"} : d[f] = s.state[f]
        BY Zenon DEF Changes, ClientFields
    <2> HIDE DEF failed, d
    <2>3. QED
        BY <2>1, <2>2, QuietRun, Zenon DEF ClientWaiting
<1> HIDE DEF cke, key, finished, failed
<1>4. /\ IsStep(v) /\ v.out = u.out /\ IsClient(v.state)
      /\ v.state.phase = "ServerFinished" /\ v.state.cke = cke
      /\ \A f \in {"me", "hello", "lastHello", "nextMessage"} : v.state[f] = d[f]
    BY <1>3, Zenon DEF IsStep, IsClient, ClientFields
<1> HIDE DEF v
<1>5. /\ IsStep(n)
      /\ \A f \in {"me", "hello", "lastHello", "nextMessage", "phase", "cke"} :
            n.state[f] = v.state[f]
      /\ n.out = Append(v.out,
            <<PlainHandshake(v.state.next0, v.state.cke), ChangeCipherSpec(v.state.next0 + 1),
              Sealed(v.state.next1, "handshake", v.state.key, v.state.finished)>>)
    BY <1>4, FinishedFlightFields, Zenon
<1> HIDE DEF n
<1>6. \A r \in Sent(n.out) : ~Hello(r)
    <2>1. Flights(v.out) /\ Sent(v.out) = {} /\ v.state.cke.type = "ClientKeyExchange"
        BY <1>2, <1>3, <1>4, Zenon DEF IsStep
    <2>2. QED
        BY <1>5, <2>1, FinishedFlightRun
<1>7. y.state = n.state /\ y.out = n.out /\ y.stop
    BY <1>5, Zenon DEF IsStep
<1> HIDE DEF y
<1>8. SameHello(c, y)
    BY <1>3, <1>4, <1>5, <1>6, <1>7, Zenon DEF SameHello
<1>9. ClientRun(c, y, records)
    BY <1>2, <1>4, <1>5, <1>7, <1>8 DEF ClientRun, ClientWaiting
<1>10. QED
    BY <1>1, <1>9, Zenon

\* wait_for_server_flight.
LEMMA ServerFlightRun ==
    ASSUME NEW c, NEW R, NEW s, NEW records, ClientFold(c, s, R), ClientRun(c, s, records),
           ~s.stop, c.phase = "ServerFlight", NEW i \in 1..Len(records)
    PROVE  ClientRun(c, ServerFlightRecord(s, records[i]), records)
<1> DEFINE r == records[i]
           m == r.message
           d == s.state
           hello == [s EXCEPT !.state =
                        [d EXCEPT !.recorded = TRUE, !.serverHello = Body(m),
                                  !.transcript =
                                      (IF d.recorded THEN @ ELSE Append(@, d.hello)) \o <<m>>,
                                  !.serverFlight = Append(@, m)]]
           exchange == [s EXCEPT !.state = [d EXCEPT !.exchange = m, !.transcript = Append(@, m),
                                                     !.serverFlight = Append(@, m)]]
           done == [s EXCEPT !.state = [d EXCEPT !.transcript = Append(@, m),
                                                 !.serverFlight = Append(@, m)]]
           fields == {"recorded", "serverHello", "exchange", "transcript", "serverFlight"}
<1>1. /\ d.phase = "ServerFlight" /\ c.phase \in ClientWaiting /\ IsStep(s) /\ IsClient(d)
    BY Zenon DEF ClientFold, ClientInv, ClientCore, ClientWaiting
<1>2. \/ ServerFlightMessage(s, m) \in {s, hello, exchange, ClientFailed(s), ClientFinishes(done)}
      \/ /\ m.type = "HelloVerifyRequest"
         /\ ServerFlightMessage(s, m) = HelloVerifyInFlight(s, m)
    BY DEF ServerFlightMessage
<1>3. \/ ServerFlightRecord(s, r) \in {s, ClientFailed(s)}
      \/ PlainMessage(r) /\ ServerFlightRecord(s, r) = ServerFlightMessage(s, m)
    BY Zenon DEF ServerFlightRecord, PlainMessage
<1>4. Changes(s, hello, fields)
    BY <1>1, Zenon DEF Changes, IsStep, IsClient, ClientFields
<1>5. Changes(s, exchange, fields)
    BY <1>1, Zenon DEF Changes, IsStep, IsClient, ClientFields
<1>6. Changes(s, done, fields)
    BY <1>1, Zenon DEF Changes, IsStep, IsClient, ClientFields
<1> HIDE DEF hello, exchange, done
<1>7. ASSUME NEW t, Changes(s, t, fields) PROVE ClientRun(c, t, records)
    <2>1. /\ t.out = s.out /\ t.state.phase = "ServerFlight"
          /\ \A f \in {"me", "hello", "lastHello", "nextMessage", "next0"} :
                t.state[f] = s.state[f]
        BY <1>1, <1>7, Zenon DEF Changes, ClientFields
    <2>2. QED
        BY <1>1, <2>1, QuietRun, Zenon
<1>8. ClientRun(c, hello, records) /\ ClientRun(c, exchange, records)
    BY <1>4, <1>5, <1>7, Zenon
<1>9. ClientRun(c, ClientFinishes(done), records)
    BY <1>6, FinishesRun, Zenon
<1>10. ClientRun(c, ClientFailed(s), records)
    BY <1>1, FailedRun, Zenon
<1>11. ASSUME PlainMessage(r), m.type = "HelloVerifyRequest"
       PROVE  ClientRun(c, HelloVerifyInFlight(s, m), records)
    BY <1>11, LateHelloVerifyRun, Zenon DEF HelloVerify
<1>12. QED
    BY <1>2, <1>3, <1>8, <1>9, <1>10, <1>11, Zenon
\* wait_for_server_finished.
LEMMA ServerFinishedRun ==
    ASSUME NEW c, NEW R, NEW s, NEW records, ClientFold(c, s, R), ClientRun(c, s, records),
           ~s.stop, c.phase = "ServerFinished", NEW i \in 1..Len(records)
    PROVE  ClientRun(c, ServerFinishedRecord(s, records[i]), records)
<1> DEFINE r == records[i]
           d == s.state
           ccs == [s EXCEPT !.state.ccs = TRUE]
           seen == [s EXCEPT !.state.seen = @ \cup {r.seq}]
           done == [s EXCEPT !.state = [d EXCEPT !.seen = @ \cup {r.seq}, !.phase = "Done",
                                                 !.transcript = Append(@, r.message)],
                             !.stop = TRUE]
           kept == {"cookie", "used", "ccs", "seen", "phase"}
<1>1. /\ d.phase = "ServerFinished" /\ c.phase \in ClientWaiting
      /\ IsStep(s) /\ IsClient(d) /\ d.cke.type = "ClientKeyExchange"
    BY Zenon DEF ClientFold, ClientInv, ClientCore, ClientWaiting, ClientRun
<1>2. \/ ServerFinishedRecord(s, r) \in {s, ccs, ClientFailed(s), ClientFailed(seen)}
      \/ /\ r.epoch = 1 /\ r.content = "handshake"
         /\ Body(r.message) = <<"server", d.key, d.transcript>>
         /\ ServerFinishedRecord(s, r) = done
    BY Zenon DEF ServerFinishedRecord
<1>3. Changes(s, ccs, kept) /\ ccs.state.phase = d.phase
    BY <1>1, Zenon DEF Changes, IsStep, IsClient, ClientFields
<1>4. Changes(s, seen, kept) /\ seen.state.phase = d.phase
    BY <1>1, Zenon DEF Changes, IsStep, IsClient, ClientFields
<1>5. /\ done.out = s.out /\ done.stop /\ done.state.phase = "Done"
      /\ done.state.key = d.key /\ done.state.transcript = Append(d.transcript, r.message)
      /\ \A f \in {"me", "hello", "lastHello", "nextMessage", "next0"} :
            done.state[f] = d[f]
    BY <1>1, Zenon DEF IsStep, IsClient, ClientFields
<1> HIDE DEF ccs, seen, done
<1>6. ASSUME NEW t, Changes(s, t, kept), t.state.phase = d.phase
      PROVE  /\ t.out = s.out /\ t.state.cke = d.cke
             /\ \A f \in {"me", "hello", "lastHello", "nextMessage", "next0"} :
                    t.state[f] = s.state[f]
    BY <1>6, Zenon DEF Changes, ClientFields
<1>7. ClientRun(c, ccs, records)
    BY <1>1, <1>3, <1>6, QuietRun, Zenon
<1>8. ClientRun(c, ClientFailed(s), records)
    BY <1>1, FailedRun, Zenon
<1>9. ClientRun(c, ClientFailed(seen), records)
    <2>1. ClientFold(c, seen, R)
        <3>1. ClientInv(seen.state, R \cup Sent(seen.out)) /\ seen.state.me = c.me
            BY <1>4, Harmless, Zenon
        <3>2. QED
            BY <1>1, <1>4, <3>1, Zenon DEF ClientFold, Changes
    <2>2. QED
        BY <1>1, <1>4, <1>6, <2>1, FailedRun, Zenon
<1>10. ASSUME r.epoch = 1, r.content = "handshake",
              Body(r.message) = <<"server", d.key, d.transcript>>
       PROVE  ClientRun(c, done, records)
    <2>1. Confirms(r, done.state)
        BY <1>5, <1>10, Zenon DEF Confirms
    <2>2. QED
        BY <1>1, <1>5, <2>1, QuietRun, Zenon
<1>11. QED
    BY <1>2, <1>7, <1>8, <1>9, <1>10, Zenon

\* A record of a datagram.
LEMMA ClientRecordRun ==
    ASSUME NEW c, NEW R, NEW s, NEW records, ClientFold(c, s, R), ClientRun(c, s, records),
           NEW i \in 1..Len(records)
    PROVE  ClientRun(c, Unless(s, ClientRecord(c.phase, s, records[i])), records)
<1>1. CASE s.stop
    BY <1>1, Zenon DEF Unless
<1>2. CASE ~s.stop
    <2>1. CASE c.phase = "HelloVerify"
        BY <1>2, <2>1, HelloVerifyRun, Zenon DEF Unless, ClientRecord
    <2>2. CASE c.phase = "ServerFlight"
        BY <1>2, <2>2, ServerFlightRun, Zenon DEF Unless, ClientRecord
    <2>3. CASE c.phase = "ServerFinished"
        BY <1>2, <2>3, ServerFinishedRun, Zenon DEF Unless, ClientRecord
    <2>4. CASE c.phase \notin {"HelloVerify", "ServerFlight", "ServerFinished"}
        BY <1>2, <2>4, Zenon DEF Unless, ClientRecord
    <2>5. QED
        BY <2>1, <2>2, <2>3, <2>4, Zenon
<1>3. QED
    BY <1>1, <1>2, Zenon

\* Before the records.
LEMMA BegunRun ==
    ASSUME NEW c, NEW R, ClientInv(c, R), NEW records,
           c.phase = "ServerFinished" => c.cke.type = "ClientKeyExchange"
    PROVE  ClientRun(c, Begun(c, records), records)
<1> DEFINE s == Step(c)
           t == [s EXCEPT !.state.used = @ + 1]
           n == SendFinishedFlight(t)
<1>1. IsClient(c)
    BY Zenon DEF ClientInv, ClientCore
<1>2. s.state = c /\ ~s.stop /\ s.out = <<>> /\ IsStep(s) /\ Sent(s.out) = {}
    BY NothingSent, Zenon DEF Step, IsStep
<1>3. ClientRun(c, s, records)
    <2>1. SameHello(c, s)
        BY <1>2, Zenon DEF SameHello
    <2> HIDE DEF s
    <2>2. QED
        BY <1>2, <2>1, Zenon DEF ClientRun, ClientWaiting, s
<1>4. CASE c.phase = "ServerFinished"
    <2>1. /\ IsStep(t) /\ IsClient(t.state) /\ t.out = s.out /\ t.stop = FALSE
          /\ \A f \in {"me", "hello", "lastHello", "nextMessage", "phase", "cke"} :
                t.state[f] = c[f]
        <3> HIDE DEF s
        <3>1. QED
            BY <1>1, <1>2 DEF IsStep, IsClient, ClientFields
    <2>2. Begun(c, records) \in {s, n}
        BY Zenon DEF Begun, AnswersRepeatedFlight
    <2> HIDE DEF s, t
    <2>3. /\ IsStep(n) /\ n.stop = t.stop
          /\ \A f \in {"me", "hello", "lastHello", "nextMessage", "phase", "cke"} :
                n.state[f] = t.state[f]
          /\ n.out = Append(t.out,
                <<PlainHandshake(t.state.next0, t.state.cke), ChangeCipherSpec(t.state.next0 + 1),
                  Sealed(t.state.next1, "handshake", t.state.key, t.state.finished)>>)
        BY <2>1, FinishedFlightFields, Zenon
    <2> HIDE DEF n
    <2>4. \A r \in Sent(n.out) : ~Hello(r)
        <3>1. Flights(t.out) /\ Sent(t.out) = {} /\ t.state.cke.type = "ClientKeyExchange"
            BY <1>2, <1>4, <2>1, Zenon DEF IsStep
        <3>2. QED
            BY <2>3, <3>1, FinishedFlightRun
    <2>5. SameHello(c, n)
        BY <2>1, <2>3, <2>4, Zenon DEF SameHello
    <2>6. ClientRun(c, n, records)
        BY <1>4, <2>1, <2>3, <2>5, Zenon DEF ClientRun, ClientWaiting
    <2>7. QED
        BY <1>3, <2>2, <2>6, Zenon
<1>5. CASE c.phase # "ServerFinished"
    <2>1. Begun(c, records) = s
        BY <1>5, Zenon DEF Begun
    <2> HIDE DEF s
    <2>2. QED
        BY <1>3, <2>1, Zenon
<1>6. QED
    BY <1>4, <1>5, Zenon

\* A datagram.
LEMMA ClientRuns ==
    ASSUME NEW c, NEW R, ClientInv(c, R), NEW records, Len(records) \in Nat,
           c.phase = "ServerFinished" => c.cke.type = "ClientKeyExchange"
    PROVE  LET s == ClientDatagram(c, records)
           IN  ClientFold(c, s, R) /\ ClientRun(c, s, records)
<1>1. PICK after :
              /\ after[0] = Begun(c, records)
              /\ ClientDatagram(c, records) = after[Len(records)]
              /\ \A n \in Nat : n < Len(records) =>
                    after[n + 1] = Unless(after[n], ClientRecord(c.phase, after[n], records[n + 1]))
              /\ \A n \in 0..Len(records) : ClientFold(c, after[n], R)
    BY ClientTrace, Zenon
<1> DEFINE P == {n \in Nat : n <= Len(records) => ClientRun(c, after[n], records)}
<1>2. 0 \in P
    BY <1>1, BegunRun, Zenon
<1>3. ASSUME NEW n \in Nat, n \in P PROVE n + 1 \in P
    <2> SUFFICES ASSUME n + 1 <= Len(records) PROVE ClientRun(c, after[n + 1], records)
        OBVIOUS
    <2>1. n <= Len(records) /\ n < Len(records) /\ n \in 0..Len(records)
          /\ n + 1 \in 1..Len(records)
        OBVIOUS
    <2>2. ClientFold(c, after[n], R) /\ ClientRun(c, after[n], records)
        BY <1>1, <1>3, <2>1, Zenon
    <2>3. ClientRun(c, Unless(after[n], ClientRecord(c.phase, after[n], records[n + 1])), records)
        BY <2>1, <2>2, ClientRecordRun, Zenon
    <2>4. after[n + 1] = Unless(after[n], ClientRecord(c.phase, after[n], records[n + 1]))
        BY <1>1, <2>1, Zenon
    <2>5. QED
        BY <2>3, <2>4, Zenon
<1>4. Nat \subseteq P
    <2> HIDE DEF P
    <2>1. QED
        BY <1>2, <1>3, Induction, Zenon
<1>5. Len(records) \in 0..Len(records) /\ Len(records) \in P
    BY <1>4
<1>6. QED
    BY <1>1, <1>5
-----------------------------------------------------------------------------
(* The client's cookies only become newer *)

\* A cookie names an accept of the server, or none.
LEMMA CookieRuns ==
    ASSUME NEW me, NEW runs \in Nat, NEW k \in Cookies(me, runs)
    PROVE  AcceptOf(k) \in 0..runs
<1>1. CASE k = None
    BY <1>1 DEF AcceptOf
<1>2. CASE k # None
    <2>1. PICK i \in 1..runs : k = Cookie(i, me)
        BY <1>2, Zenon DEF Cookies
    <2>2. k[2] = i
        BY <2>1, Zenon DEF Cookie
    <2>3. QED
        BY <1>2, <2>2 DEF AcceptOf
<1>3. QED
    BY <1>1, <1>2, Zenon

\* What is read off a ClientHello.
LEMMA HelloBody ==
    ASSUME NEW seq, NEW me, NEW k
    PROVE  LET m == ClientHello(seq, me, k)
           IN  /\ m.type = "ClientHello" /\ m.seq = seq
               /\ CookieOf(m) = k /\ Body(m).random = me
BY Zenon DEF ClientHello, Message, Body, CookieOf

\* A ClientHello with a number past the others and a cookie at least as new.
LEMMA HelloAdded ==
    ASSUME NEW c, NEW C, NEW runs \in Nat, HelloInv(c, C, runs), NEW next \in Nat,
           \A r \in C : Hello(r) => r.seq < next,
           NEW d, d.me = c.me, d.phase # "Start", d.lastHello \in Int,
           d.phase = "ServerFinished" => d.cke.type = "ClientKeyExchange",
           NEW k \in Cookies(c.me, runs), d.hello = ClientHello(d.lastHello, c.me, k),
           \A r \in C : Hello(r) =>
                /\ AcceptOf(CookieOf(r.message)) <= AcceptOf(k)
                /\ r.message.seq <= d.lastHello
                /\ r.message.seq = d.lastHello => r.message = d.hello,
           NEW F, \A r \in F : Hello(r) => r = PlainHandshake(next, d.hello)
    PROVE  HelloInv(d, C \cup F, runs)
<1>1. /\ d.hello.seq = d.lastHello /\ CookieOf(d.hello) = k
    BY HelloBody
<1>2. AcceptOf(k) \in Int
    BY CookieRuns
<1>3. ASSUME NEW r \in F, Hello(r)
      PROVE  r.seq = next /\ r.message = d.hello
    BY <1>3 DEF PlainHandshake, Record
<1>4. \A r \in C : Hello(r) =>
            /\ \E q \in Cookies(c.me, runs) : r.message = ClientHello(r.message.seq, c.me, q)
            /\ r.seq \in Nat
            /\ r.message.seq \in Int
    BY Zenon DEF HelloInv
<1>5. \A r \in C \cup F : Hello(r) =>
            /\ \E q \in Cookies(d.me, runs) : r.message = ClientHello(r.message.seq, d.me, q)
            /\ r.seq \in Nat
            /\ r.message.seq \in Int
            /\ r.message.seq <= d.lastHello
            /\ r.message.seq = d.lastHello => r.message = d.hello
            /\ AcceptOf(CookieOf(r.message)) <= AcceptOf(CookieOf(d.hello))
    BY <1>1, <1>2, <1>3, <1>4
<1>6. ASSUME NEW x \in C \cup F, NEW y \in C \cup F, Hello(x), Hello(y), x.seq <= y.seq
      PROVE  AcceptOf(CookieOf(x.message)) <= AcceptOf(CookieOf(y.message))
    <2>1. CASE x \in C /\ y \in C
        BY <1>6, <2>1, Zenon DEF HelloInv
    <2>2. CASE y \in F
        BY <1>1, <1>3, <1>5, <1>6, <2>2, Zenon
    <2>3. CASE x \in F /\ y \in C
        BY <1>3, <1>4, <1>6, <2>3
    <2>4. QED
        BY <2>1, <2>2, <2>3, Zenon
<1>7. QED
    BY <1>5, <1>6, Zenon DEF HelloInv

\* The HelloVerifyRequests among the records answer ClientHellos of C.
Answered(records, C, runs) ==
    \A i \in 1..Len(records) : HelloVerify(records[i]) =>
        \E j \in 1..runs : \E z \in C : Answers(records[i], z, j)

\* The number that the client's next record takes is past those of its
\* ClientHellos.
LEMMA HellosPassed ==
    ASSUME NEW c, NEW C, ClientInv(c, C), c.phase # "Failed"
    PROVE  c.next0 \in Nat /\ \A r \in C : Hello(r) => r.seq < c.next0
BY Zenon DEF ClientInv, ClientCore, Numbered, Hello, PlainMessage

\* The client sends no ClientHello, or the last one again.
LEMMA HelloRepeated ==
    ASSUME NEW c, NEW C, NEW runs \in Nat, ClientInv(c, C), HelloInv(c, C, runs),
           c.phase \notin {"Start", "Failed"},
           NEW d, d.me = c.me, d.hello = c.hello, d.lastHello = c.lastHello, d.phase # "Start",
           d.phase = "ServerFinished" => d.cke.type = "ClientKeyExchange",
           NEW F, \A r \in F : Hello(r) => r = PlainHandshake(c.next0, c.hello)
    PROVE  HelloInv(d, C \cup F, runs)
<1>1. c.next0 \in Nat /\ \A r \in C : Hello(r) => r.seq < c.next0
    BY HellosPassed, Zenon
<1>2. PICK k \in Cookies(c.me, runs) : c.hello = ClientHello(c.lastHello, c.me, k)
    BY Zenon DEF HelloInv
<1>3. CookieOf(c.hello) = k
    BY <1>2, HelloBody
<1>4. \A r \in C : Hello(r) =>
            /\ AcceptOf(CookieOf(r.message)) <= AcceptOf(k)
            /\ r.message.seq <= d.lastHello
            /\ r.message.seq = d.lastHello => r.message = d.hello
    BY <1>3, Zenon DEF HelloInv
<1>5. d.lastHello \in Int
    BY Zenon DEF ClientInv, ClientCore
<1>6. d.hello = ClientHello(d.lastHello, c.me, k)
    BY <1>2, Zenon
<1>7. \A r \in F : Hello(r) => r = PlainHandshake(c.next0, d.hello)
    BY Zenon
<1>8. QED
    BY <1>1, <1>4, <1>5, <1>6, <1>7, HelloAdded, Zenon

\* A datagram with such answers leaves the client's ClientHellos in order.
LEMMA HellosKept ==
    ASSUME NEW c, NEW C, NEW runs \in Nat, ClientInv(c, C), HelloInv(c, C, runs),
           NEW records, Answered(records, C, runs),
           \A j \in 1..runs : Cookie(j, c.me) # None,
           NEW s, ClientFold(c, s, C), ClientRun(c, s, records)
    PROVE  HelloInv(s.state, C \cup Sent(s.out), runs)
<1> DEFINE d == s.state
           F == Sent(s.out)
<1>1. CASE c.phase \notin ClientWaiting
    <2>1. s = Step(c)
        BY <1>1, Zenon DEF ClientRun
    <2>2. d = c /\ F = {}
        BY <2>1, NothingSent, Zenon DEF Step
    <2>3. C \cup F = C
        BY <2>2, Zenon
    <2>4. QED
        BY <2>2, <2>3, Zenon
<1>2. CASE c.phase \in ClientWaiting
    <2>1. /\ c.phase # "Start" /\ c.phase # "Failed" /\ d.phase # "Start" /\ d.me = c.me
          /\ d.phase = "ServerFinished" => d.cke.type = "ClientKeyExchange"
          /\ c.lastHello \in Int /\ c.nextMessage = c.lastHello + 1
        BY <1>2, Zenon DEF ClientWaiting, ClientRun, ClientFold, ClientInv, ClientCore
    <2>2. c.next0 \in Nat /\ \A r \in C : Hello(r) => r.seq < c.next0
        BY <2>1, HellosPassed, Zenon
    <2>3. PICK k \in Cookies(c.me, runs) : c.hello = ClientHello(c.lastHello, c.me, k)
        BY <2>1, Zenon DEF HelloInv
    <2>4. CookieOf(c.hello) = k
        BY <2>3, HelloBody
    <2>5. \A r \in C : Hello(r) =>
                /\ AcceptOf(CookieOf(r.message)) <= AcceptOf(k)
                /\ r.message.seq \in Int
                /\ r.message.seq <= c.lastHello
                /\ r.message.seq = c.lastHello => r.message = c.hello
                /\ AcceptOf(CookieOf(r.message)) \in Int
        <3>1. ASSUME NEW r \in C, Hello(r) PROVE AcceptOf(CookieOf(r.message)) \in Int
            <4>1. PICK q \in Cookies(c.me, runs) : r.message = ClientHello(r.message.seq, c.me, q)
                BY <3>1, Zenon DEF HelloInv
            <4>2. CookieOf(r.message) = q
                BY <4>1, HelloBody
            <4>3. QED
                BY <4>2, CookieRuns
        <3>2. QED
            BY <2>4, <3>1, Zenon DEF HelloInv
    <2> HIDE DEF d, F
    <2>6. CASE SameHello(c, s)
        <3>1. /\ d.hello = c.hello /\ d.lastHello = c.lastHello
              /\ \A r \in F : Hello(r) => r = PlainHandshake(c.next0, d.hello)
            BY <2>6, Zenon DEF SameHello, d, F
        <3>2. HelloInv(d, C \cup F, runs)
            BY <2>1, <3>1, HelloRepeated, Zenon
        <3>3. QED
            BY <3>2, Zenon DEF d, F
    <2>7. CASE \E i \in 1..Len(records) :
                    HelloVerify(records[i]) /\ NewHello(c, s, records[i].message)
        <3>1. PICK i \in 1..Len(records) :
                    HelloVerify(records[i]) /\ NewHello(c, s, records[i].message)
            BY <2>7, Zenon
        <3>2. PICK j \in 1..runs : \E z \in C : Answers(records[i], z, j)
            BY <3>1, Zenon DEF Answered
        <3>3. PICK z \in C : Answers(records[i], z, j)
            BY <3>2, Zenon
        <3> DEFINE m == records[i].message
                   fresh == Cookie(j, c.me)
        <3>4. m.seq = z.message.seq /\ Body(m) = Cookie(j, Body(z.message).random)
            BY <3>3 DEF Answers, PlainHandshake, Record, HelloVerifyRequest, Message, Body
        <3>5. z.message = c.hello
            BY <2>5, <3>1, <3>3, <3>4, Zenon DEF NewHello, Answers
        <3>6. Body(m) = fresh
            <4>1. Body(c.hello).random = c.me
                BY <2>3, HelloBody
            <4>2. QED
                BY <3>4, <3>5, <4>1, Zenon DEF fresh
        <3>7. fresh \in Cookies(c.me, runs) /\ AcceptOf(fresh) = j
            BY Zenon DEF Cookies, AcceptOf, Cookie
        <3>8. AcceptOf(k) <= j
            BY <2>4, <3>3, <3>5, Zenon DEF Answers
        <3>9. AcceptOf(k) \in Int
            BY CookieRuns
        <3> HIDE DEF m, fresh
        <3>10. /\ d.hello = ClientHello(d.lastHello, c.me, fresh)
               /\ d.lastHello = c.lastHello + 1
               /\ \A r \in F : Hello(r) => r = PlainHandshake(c.next0, d.hello)
            BY <2>1, <3>1, <3>6, Zenon DEF NewHello, d, F, m
        <3>11. \A r \in C : Hello(r) =>
                    /\ AcceptOf(CookieOf(r.message)) <= AcceptOf(fresh)
                    /\ r.message.seq <= d.lastHello
                    /\ r.message.seq = d.lastHello => r.message = d.hello
            <4> SUFFICES ASSUME NEW r \in C, Hello(r)
                         PROVE  /\ AcceptOf(CookieOf(r.message)) <= AcceptOf(fresh)
                                /\ r.message.seq <= d.lastHello
                                /\ r.message.seq = d.lastHello => r.message = d.hello
                BY Zenon
            <4>1. /\ AcceptOf(CookieOf(r.message)) <= AcceptOf(k)
                  /\ r.message.seq \in Int /\ r.message.seq <= c.lastHello
                  /\ AcceptOf(CookieOf(r.message)) \in Int
                BY <2>5, Zenon
            <4>2. AcceptOf(fresh) = j /\ AcceptOf(k) <= j /\ AcceptOf(k) \in Int /\ j \in Int
                BY <3>7, <3>8, <3>9
            <4>3. d.lastHello = c.lastHello + 1 /\ c.lastHello \in Int
                BY <2>1, <3>10, Zenon
            <4>4. QED
                BY <4>1, <4>2, <4>3
        <3>12. d.lastHello \in Int
            BY <2>1, <3>10
        <3>13. QED
            BY <2>1, <2>2, <3>7, <3>10, <3>11, <3>12, HelloAdded, Zenon DEF d, F
    <2>8. QED
        BY <2>6, <2>7, Zenon DEF ClientRun
<1>3. QED
    BY <1>1, <1>2, Zenon

-----------------------------------------------------------------------------
(* The client's steps *)

\* connect.
LEMMA ConnectSends ==
    ASSUME NEW c, NEW C, ClientInv(c, C), c.phase = "Start"
    PROVE  LET s == NextClientHello(Step([c EXCEPT !.phase = "HelloVerify"]))
               message == ClientHello(c.nextMessage, c.me, c.cookie)
           IN  /\ IsStep(s) /\ s.state.me = c.me /\ s.state.phase = "HelloVerify"
               /\ ClientInv(s.state, C \cup Sent(s.out))
               /\ s.state.hello = message /\ s.state.lastHello = c.nextMessage
               /\ Sent(s.out) = {PlainHandshake(c.next0, message)}
<1> DEFINE d == [c EXCEPT !.phase = "HelloVerify"]
           t == Step(d)
           s == NextClientHello(t)
           message == ClientHello(c.nextMessage, c.me, c.cookie)
           record == PlainHandshake(c.next0, message)
<1>1. IsClient(c) /\ ~c.recorded
    BY Zenon DEF ClientInv, ClientCore
<1>2. /\ IsClient(d) /\ d.phase = "HelloVerify"
      /\ \A f \in ClientFields \ {"phase"} : d[f] = c[f]
    BY <1>1, Zenon DEF IsClient, ClientFields
<1> HIDE DEF d
<1>3. /\ d.recorded = c.recorded /\ d.cookie = c.cookie /\ d.me = c.me /\ d.next0 = c.next0
      /\ d.nextMessage = c.nextMessage /\ d.lastHello = c.lastHello /\ d.key = c.key
      /\ d.next1 = c.next1 /\ d.transcript = c.transcript
    BY <1>1, <1>2, Zenon DEF ClientFields
<1>4. ClientCore(d, C)
    BY <1>1, <1>2, <1>3, Zenon DEF ClientInv, ClientCore, Keyless
<1>5. /\ t.state = d /\ t.out = <<>> /\ ~t.stop /\ Sent(t.out) = {} /\ IsStep(t)
      /\ C \cup Sent(t.out) = C
    BY NothingSent, Zenon DEF Step, IsStep
<1> HIDE DEF t
<1>6. /\ IsStep(s)
      /\ s.state.lastHello = d.nextMessage
      /\ s.state.hello = ClientHello(d.nextMessage, d.me, d.cookie)
      /\ \A f \in ClientFields \ {"flight", "next0", "hello", "lastHello", "nextMessage"} :
            s.state[f] = d[f]
      /\ s.out = Append(t.out, <<PlainHandshake(d.next0,
                                    ClientHello(d.nextMessage, d.me, d.cookie))>>)
      /\ ClientInv(s.state, C \cup Sent(s.out))
    <2>1. /\ ClientCore(t.state, C \cup Sent(t.out))
          /\ t.state.phase \in {"HelloVerify", "ServerFlight"}
          /\ ~t.state.recorded
        BY <1>1, <1>2, <1>3, <1>4, <1>5, Zenon
    <2>2. QED
        BY <1>5, <2>1, NextClientHelloSent, Zenon
<1> HIDE DEF s, record, message
<1>7. s.state.me = c.me /\ s.state.phase = "HelloVerify"
    BY <1>2, <1>3, <1>6, Zenon DEF ClientFields
<1>8. s.state.hello = message /\ s.state.lastHello = c.nextMessage /\ Sent(s.out) = {record}
    <2>1. Flights(t.out)
        BY <1>5, Zenon DEF IsStep
    <2>2. s.out = Append(t.out, <<record>>)
        BY <1>3, <1>6, Zenon DEF record, message
    <2>3. Sent(s.out) = Sent(t.out) \cup {record}
        BY <2>1, <2>2, SentOne, Zenon
    <2>4. QED
        BY <1>3, <1>5, <1>6, <2>3, Zenon DEF message
<1>9. QED
    BY <1>6, <1>7, <1>8, Zenon DEF s, t, d, message, record

\* The first ClientHello, with the order of the cookies.
LEMMA ConnectKeeps ==
    ASSUME NEW c, NEW C, NEW runs \in Nat, ClientInv(c, C), HelloInv(c, C, runs),
           c.phase = "Start"
    PROVE  LET s == NextClientHello(Step([c EXCEPT !.phase = "HelloVerify"]))
           IN  /\ IsStep(s) /\ s.state.me = c.me /\ s.state.phase # "Done"
               /\ ClientInv(s.state, C \cup Sent(s.out))
               /\ HelloInv(s.state, C \cup Sent(s.out), runs)
<1> DEFINE s == NextClientHello(Step([c EXCEPT !.phase = "HelloVerify"]))
<1>1. C = {} /\ c.cookie = None /\ c.next0 \in Nat /\ c.nextMessage \in Int
    BY DEF ClientInv, ClientCore, HelloInv
<1>2. /\ IsStep(s) /\ s.state.me = c.me /\ s.state.phase = "HelloVerify"
      /\ ClientInv(s.state, C \cup Sent(s.out))
      /\ s.state.hello = ClientHello(c.nextMessage, c.me, c.cookie)
      /\ s.state.lastHello = c.nextMessage
      /\ Sent(s.out) = {PlainHandshake(c.next0, ClientHello(c.nextMessage, c.me, c.cookie))}
    BY ConnectSends, Zenon
<1> HIDE DEF s
<1>3. HelloInv(s.state, C \cup Sent(s.out), runs)
    <2>1. None \in Cookies(c.me, runs)
        BY Zenon DEF Cookies
    <2>2. s.state.hello = ClientHello(s.state.lastHello, c.me, None)
        BY <1>1, <1>2, Zenon
    <2>3. \A r \in Sent(s.out) : Hello(r) => r = PlainHandshake(c.next0, s.state.hello)
        BY <1>2, Zenon
    <2>4. s.state.lastHello \in Int /\ s.state.phase # "Start"
          /\ s.state.phase # "ServerFinished"
        BY <1>1, <1>2, Zenon
    <2>5. \A r \in C : FALSE
        BY <1>1, Zenon
    <2>6. QED
        BY <1>1, <1>2, <2>1, <2>2, <2>3, <2>4, <2>5, HelloAdded, Zenon
<1>4. QED
    BY <1>2, <1>3, Zenon DEF s

\* The retransmission timer of a wait.
LEMMA TimerKeeps ==
    ASSUME NEW c, NEW C, NEW runs \in Nat, ClientInv(c, C), HelloInv(c, C, runs),
           c.phase \in ClientWaiting
    PROVE  LET s == IF c.phase = "ServerFinished" THEN SendFinishedFlight(Step(c))
                    ELSE ResendClientHello(Step(c))
           IN  /\ IsStep(s) /\ s.state.me = c.me /\ s.state.phase # "Done"
               /\ ClientInv(s.state, C \cup Sent(s.out))
               /\ HelloInv(s.state, C \cup Sent(s.out), runs)
<1> DEFINE t == Step(c)
<1>1. /\ t.state = c /\ t.out = <<>> /\ ~t.stop /\ Sent(t.out) = {} /\ IsStep(t)
      /\ C \cup Sent(t.out) = C /\ Flights(t.out)
    BY NothingSent, Zenon DEF Step, IsStep
<1>2. /\ c.phase # "Start" /\ c.phase # "Failed" /\ IsClient(c)
    BY Zenon DEF ClientWaiting, ClientInv, ClientCore
<1> HIDE DEF t
<1>3. CASE c.phase = "ServerFinished"
    <2> DEFINE s == SendFinishedFlight(t)
    <2>1. /\ IsStep(s) /\ ClientInv(s.state, C \cup Sent(s.out))
        BY <1>1, <1>3, FinishedFlightSent, Zenon
    <2>2. /\ \A f \in {"me", "hello", "lastHello", "nextMessage", "phase", "cke"} :
                s.state[f] = c[f]
          /\ s.out = Append(t.out,
                <<PlainHandshake(c.next0, c.cke), ChangeCipherSpec(c.next0 + 1),
                  Sealed(c.next1, "handshake", c.key, c.finished)>>)
        BY <1>1, <1>2, FinishedFlightFields, Zenon
    <2> HIDE DEF s
    <2>3. c.cke.type = "ClientKeyExchange"
        BY <1>3, Zenon DEF HelloInv
    <2>4. \A r \in Sent(s.out) : ~Hello(r)
        <3> DEFINE flight == <<PlainHandshake(c.next0, c.cke), ChangeCipherSpec(c.next0 + 1),
                               Sealed(c.next1, "handshake", c.key, c.finished)>>
        <3>1. Flights(t.out)
            BY <1>1, Zenon
        <3>2. \A r \in Sent(Append(t.out, flight)) : Hello(r) => r \in Sent(t.out)
            BY <2>3, <3>1, FinishedFlightRun, Zenon
        <3>3. s.out = Append(t.out, flight)
            BY <2>2, Zenon
        <3> HIDE DEF flight
        <3>4. QED
            BY <1>1, <3>2, <3>3, Zenon
    <2>5. /\ s.state.me = c.me /\ s.state.hello = c.hello /\ s.state.lastHello = c.lastHello
          /\ s.state.phase = c.phase /\ s.state.cke = c.cke
        BY <2>2, Zenon
    <2>6. HelloInv(s.state, C \cup Sent(s.out), runs)
        BY <1>2, <2>3, <2>4, <2>5, HelloRepeated, Zenon
    <2>7. QED
        BY <1>3, <2>1, <2>5, <2>6, Zenon DEF s, t
<1>4. CASE c.phase # "ServerFinished"
    <2> DEFINE s == ResendClientHello(t)
    <2>0. c.phase \in {"HelloVerify", "ServerFlight"}
        BY <1>4, Zenon DEF ClientWaiting
    <2>1. /\ IsStep(s) /\ ClientInv(s.state, C \cup Sent(s.out))
          /\ \A f \in ClientFields \ {"flight", "next0"} : s.state[f] = c[f]
          /\ s.out = Append(t.out, <<PlainHandshake(c.next0, c.hello)>>)
        BY <1>1, <2>0, ClientHelloResent, Zenon
    <2> HIDE DEF s
    <2>2. /\ s.state.me = c.me /\ s.state.hello = c.hello /\ s.state.lastHello = c.lastHello
          /\ s.state.phase = c.phase
        BY <2>1, Zenon DEF ClientFields
    <2>3. Sent(s.out) = {PlainHandshake(c.next0, c.hello)}
        <3> DEFINE record == PlainHandshake(c.next0, c.hello)
        <3>1. Flights(t.out) /\ s.out = Append(t.out, <<record>>)
            BY <1>1, <2>1, Zenon
        <3> HIDE DEF record
        <3>2. Sent(s.out) = Sent(t.out) \cup {record}
            BY <3>1, SentOne, Zenon
        <3>3. QED
            BY <1>1, <3>2, Zenon DEF record
    <2>4. HelloInv(s.state, C \cup Sent(s.out), runs)
        BY <1>2, <1>4, <2>2, <2>3, HelloRepeated, Zenon
    <2>5. QED
        BY <1>4, <2>0, <2>1, <2>2, <2>4, Zenon DEF s, t
<1>5. QED
    BY <1>3, <1>4, Zenon

\* The deadline around connect.
LEMMA DeadlineKeeps ==
    ASSUME NEW c, NEW C, NEW runs \in Nat, ClientInv(c, C), HelloInv(c, C, runs),
           c.phase \in ClientWaiting
    PROVE  LET d == [c EXCEPT !.phase = "TimedOut"]
           IN  d.me = c.me /\ d.phase = "TimedOut" /\ ClientInv(d, C) /\ HelloInv(d, C, runs)
<1> DEFINE d == [c EXCEPT !.phase = "TimedOut"]
<1>1. /\ IsClient(c) /\ c.phase # "Start" /\ c.phase # "Failed"
      /\ IsSequence(c.transcript)
      /\ c.recorded => c.transcript # <<>> /\ c.transcript[1] = c.hello
      /\ ~c.recorded => c.transcript = <<>>
      /\ c.phase \in {"Start", "HelloVerify"} => ~c.recorded
    BY Zenon DEF ClientInv, ClientCore, ClientWaiting
<1>2. /\ IsClient(d) /\ d.phase = "TimedOut"
      /\ \A f \in ClientFields \ {"phase"} : d[f] = c[f]
    BY <1>1, Zenon DEF IsClient, ClientFields
<1> HIDE DEF d
<1>3. /\ \A f \in {"next0", "next1", "key", "lastHello", "nextMessage", "flight", "hello"} :
            d[f] = c[f]
      /\ d.recorded = c.recorded /\ d.transcript = c.transcript /\ d.me = c.me
      /\ d.hello = c.hello /\ d.lastHello = c.lastHello
    BY <1>2, Zenon DEF ClientFields
<1>4. ClientInv(d, C)
    BY <1>1, <1>2, <1>3, ClientKept, Zenon
<1>5. HelloInv(d, C \cup {}, runs) /\ C \cup {} = C
    BY <1>1, <1>2, <1>3, HelloRepeated, Zenon
<1>6. QED
    BY <1>2, <1>3, <1>4, <1>5, Zenon DEF d

\* send_application_data.
LEMMA ClientSeals ==
    ASSUME NEW c, NEW C, ClientInv(c, C), c.phase = "Done", NEW content, NEW message
    PROVE  LET d == [c EXCEPT !.next1 = @ + 1]
               record == Sealed(c.next1, content, c.key, message)
           IN  /\ IsClient(d) /\ d.next1 = c.next1 + 1
               /\ \A f \in ClientFields \ {"next1"} : d[f] = c[f]
               /\ ClientInv(d, C \cup {record})
<1> DEFINE d == [c EXCEPT !.next1 = @ + 1]
           record == Sealed(c.next1, content, c.key, message)
<1>1. /\ IsClient(c) /\ c.next0 \in Nat /\ c.next1 \in Nat /\ Distinct(C)
      /\ \A r \in C : Numbered(r, c.next0, c.next1)
    BY Zenon DEF ClientInv, ClientCore
<1>2. /\ IsClient(d) /\ d.next1 = c.next1 + 1
      /\ \A f \in ClientFields \ {"next1"} : d[f] = c[f]
    BY <1>1, Zenon DEF IsClient, ClientFields
<1>3. record.epoch = 1 /\ record.seq = c.next1 /\ record.key = c.key
    BY Zenon DEF Sealed, Record
<1> HIDE DEF d, record
<1>4. /\ d.me = c.me /\ d.phase = c.phase /\ d.key = c.key /\ d.transcript = c.transcript
      /\ d.next0 = c.next0 /\ d.recorded = c.recorded /\ d.lastHello = c.lastHello
      /\ d.nextMessage = c.nextMessage /\ d.hello = c.hello /\ d.flight = c.flight
    BY <1>2, Zenon DEF ClientFields
<1>5. Distinct(C \cup {record}) /\ \A r \in C \cup {record} : Numbered(r, d.next0, d.next1)
    BY <1>1, <1>2, <1>3, <1>4 DEF Distinct, Numbered
<1>6. \A r \in C \cup {record} : r.epoch = 1 => r.key = d.key /\ d.key[1] = ClientSecret
    BY <1>3, <1>4, Zenon DEF ClientInv, ClientCore
<1>7. ClientCore(d, C \cup {record})
    <2>1. d.next1 \in Nat
        BY <1>1, <1>2
    <2>2. QED
        BY <1>2, <1>4, <1>5, <1>6, <2>1, Zenon DEF ClientInv, ClientCore, Keyless
<1>8. ClientInv(d, C \cup {record})
    BY <1>4, <1>7, Zenon DEF ClientInv
<1>9. QED
    BY <1>2, <1>8, Zenon DEF d, record

\* A record of application data, with the order of the cookies.
LEMMA DataKeeps ==
    ASSUME NEW c, NEW C, NEW runs \in Nat, ClientInv(c, C), HelloInv(c, C, runs),
           c.phase = "Done"
    PROVE  LET d == [c EXCEPT !.next1 = @ + 1]
               record == Sealed(c.next1, "data", c.key, None)
           IN  /\ d.me = c.me /\ d.phase = "Done"
               /\ d.key = c.key /\ d.transcript = c.transcript
               /\ ClientInv(d, C \cup {record})
               /\ HelloInv(d, C \cup {record}, runs)
<1> DEFINE d == [c EXCEPT !.next1 = @ + 1]
           record == Sealed(c.next1, "data", c.key, None)
<1>1. /\ (\A f \in ClientFields \ {"next1"} : d[f] = c[f])
      /\ ClientInv(d, C \cup {record})
    BY ClientSeals, Zenon
<1>2. record.epoch = 1
    BY Zenon DEF Sealed, Record
<1> HIDE DEF d, record
<1>3. /\ d.me = c.me /\ d.phase = c.phase /\ d.key = c.key /\ d.transcript = c.transcript
      /\ d.lastHello = c.lastHello /\ d.hello = c.hello
    BY <1>1, Zenon DEF ClientFields
<1>4. HelloInv(d, C \cup {record}, runs)
    <2>1. \A r \in {record} : ~Hello(r)
        BY <1>2 DEF Hello, PlainMessage
    <2>2. QED
        BY <1>3, <2>1, HelloRepeated, Zenon
<1>5. QED
    BY <1>1, <1>3, <1>4, Zenon DEF d, record

\* A call of connect begins.
LEMMA StartedClient ==
    ASSUME NEW me, NEW runs
    PROVE  LET c == ClientStart(me)
           IN  c.me = me /\ c.phase = "Start" /\ ClientInv(c, {}) /\ HelloInv(c, {}, runs)
<1> DEFINE c == ClientStart(me)
<1>1. /\ c.me = me /\ c.phase = "Start" /\ c.next0 = 0 /\ c.next1 = 0 /\ c.recorded = FALSE
      /\ c.lastHello = -1 /\ c.nextMessage = 0 /\ c.transcript = <<>> /\ c.cookie = None
    BY Zenon DEF ClientStart
<1>2. IsClient(c)
    BY Zenon DEF ClientStart, IsClient, ClientFields
<1> HIDE DEF c
<1>3. IsSequence(<<>>)
    BY NothingSent, Zenon
<1>4. ClientCore(c, {})
    BY <1>1, <1>2, <1>3 DEF ClientCore, Keyless, Distinct
<1>5. ClientInv(c, {})
    BY <1>1, <1>4, Zenon DEF ClientInv
<1>6. HelloInv(c, {}, runs)
    BY <1>1, Zenon DEF HelloInv
<1>7. QED
    BY <1>1, <1>5, <1>6, Zenon DEF c

-----------------------------------------------------------------------------
(* What is on the wire *)

\* The records that a sender has put on the wire.
By(w, name) == {x[2] : x \in {y \in w : y[1] = name}}

\* The network after `out` has been sent: its datagrams and the history.
NetAfter(n, taken, to, from, out) ==
    (n \ taken) \cup {Datagram(to, from, out[i]) : i \in 1..Len(out)}
WireAfter(w, from, out) ==
    w \cup UNION {{<<from, out[i][j]>> : j \in 1..Len(out[i])} : i \in 1..Len(out)}

\* What is sent is added to its sender's records and to no others.
LEMMA WireGrows ==
    ASSUME NEW w, NEW from, NEW out
    PROVE  LET w2 == WireAfter(w, from, out)
           IN  /\ By(w2, from) = By(w, from) \cup Sent(out)
               /\ \A name : name # from => By(w2, name) = By(w, name)
               /\ \A x \in w2 : x \in w \/ x[1] = from
               /\ w \subseteq w2
<1> DEFINE new == UNION {{<<from, out[i][j]>> : j \in 1..Len(out[i])} : i \in 1..Len(out)}
           w2 == WireAfter(w, from, out)
<1>1. w2 = w \cup new
    BY Zenon DEF WireAfter
<1>2. \A x \in new : x[1] = from /\ x[2] \in Sent(out)
    BY DEF Sent, Elements
<1>3. \A y \in Sent(out) : <<from, y>> \in new
    BY DEF Sent, Elements
<1> HIDE DEF new, w2
<1>4. By(w2, from) = By(w, from) \cup Sent(out)
    <2>1. ASSUME NEW y \in Sent(out) PROVE y \in By(w2, from)
        <3>1. <<from, y>> \in w2 /\ <<from, y>>[1] = from /\ <<from, y>>[2] = y
            BY <1>1, <1>3, Zenon
        <3>2. QED
            BY <3>1, Zenon DEF By
    <2>2. By(w, from) \subseteq By(w2, from)
        BY <1>1, Zenon DEF By
    <2>3. By(w2, from) \subseteq By(w, from) \cup Sent(out)
        BY <1>1, <1>2, Zenon DEF By
    <2>4. QED
        BY <2>1, <2>2, <2>3, Zenon
<1>5. ASSUME NEW name, name # from PROVE By(w2, name) = By(w, name)
    BY <1>1, <1>2, <1>5, Zenon DEF By
<1>6. (\A x \in w2 : x \in w \/ x[1] = from) /\ w \subseteq w2
    BY <1>1, <1>2, Zenon
<1>7. QED
    BY <1>4, <1>5, <1>6, Zenon DEF w2

\* Exchange in terms of the network before it.
LEMMA ExchangeIs ==
    ASSUME NEW taken, NEW to, NEW from, NEW out, Exchange(taken, to, from, out)
    PROVE  net' = NetAfter(net, taken, to, from, out) /\ wire' = WireAfter(wire, from, out)
BY Zenon DEF Exchange, NetAfter, WireAfter

\* One more record, sent alone.
LEMMA OneRecord ==
    ASSUME NEW record
    PROVE  Flights(<<<<record>>>>) /\ Sent(<<<<record>>>>) = {record}
<1>1. Len(<<record>>) \in Nat /\ Elements(<<record>>) = {record}
    BY DEF Elements
<1> DEFINE out == <<<<record>>>>
<1>2. Len(out) = 1 /\ out[1] = <<record>> /\ out \in Seq({<<record>>})
    OBVIOUS
<1> HIDE DEF out
<1>3. Flights(out)
    BY <1>1, <1>2 DEF Flights, IsSequence
<1>4. Sent(out) = {record}
    <2>1. 1..Len(out) = {1} /\ Elements(out[1]) = {record}
        BY <1>1, <1>2
    <2>2. QED
        BY <2>1, Zenon DEF Sent
<1>5. QED
    BY <1>3, <1>4, Zenon DEF out
=============================================================================
