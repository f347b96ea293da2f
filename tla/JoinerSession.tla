---------------------------- MODULE JoinerSession ----------------------------
(***************************************************************************)
(* One relayed joiner session of the commissioner (commissioner/joiner.rs, *)
(* JoinerSession): a DTLS server of its own that is fed relayed datagrams  *)
(* and returns what to transmit and what to report.  A session ends when   *)
(* `receive` returns an error, and then nothing that it returned so far in *)
(* that call is transmitted or reported.                                   *)
(***************************************************************************)
EXTENDS DtlsMessages

CONSTANT MaxDuplicateFlights    \* MAX_DUPLICATE_FLIGHT_RETRANSMISSIONS

ASSUME DuplicateFlightsAssumption == MaxDuplicateFlights \in Nat

\* JoinerSession::new.  `run` stands for its randoms, round one and cookie
\* key; `route` for the joiner's port and joiner router, kept for all answers.
NewSession(run, secret, route) ==
    [run |-> run, secret |-> secret, route |-> route, phase |-> "AwaitingClientHello",
     hello |-> None, cke |-> None, key |-> None, flight |-> <<>>, transcript |-> <<>>,
     finished |-> None, flightRetries |-> 0, finishedRetries |-> 0, seen |-> {},
     next0 |-> 0, next1 |-> 0, ccs |-> FALSE, decision |-> None, expired |-> FALSE]

Established(s) == s.phase \in {"Connected", "Finalized"}

\* receive: the session, the transmissions and events returned so far, how
\* often the handler was asked, and whether the call failed.
Receiving(s) == [state |-> s, out |-> <<>>, events |-> <<>>, asked |-> 0, stop |-> FALSE]

SessionFails(x) == [x EXCEPT !.stop = TRUE]

\* Mutant of Transmit: every answer carries the KEK.
TransmitWithKek(x, records, kek) ==
    [x EXCEPT !.out = Append(@, [records |-> records, kek |-> TRUE])]

\* JoinerSessionEvent::Transmit.
Transmit(x, records, kek) == [x EXCEPT !.out = Append(@, [records |-> records, kek |-> kek])]

Report(x, event) == [x EXCEPT !.events = Append(@, event)]

\* Mutant of FinishedFlight: the protected record number is not consumed.
FinishedFlightUncounted(x) ==
    LET s == x.state
    IN  Transmit([x EXCEPT !.state.next0 = @ + 1],
                 <<ChangeCipherSpec(s.next0), Sealed(s.next1, "handshake", s.key, s.finished)>>, FALSE)

\* build_server_finished_flight.
FinishedFlight(x) ==
    LET s == x.state
    IN  Transmit([x EXCEPT !.state = [s EXCEPT !.next0 = @ + 1, !.next1 = @ + 1]],
                 <<ChangeCipherSpec(s.next0), Sealed(s.next1, "handshake", s.key, s.finished)>>, FALSE)

\* ClientHello while none is accepted: the cookie exchange, then the flight.
FirstHello(x, m, seq) ==
    LET s == x.state
        client == Body(m).random
        messages == <<ServerHello(m.seq, s.run), ServerKeyExchange(m.seq + 1, s.run, client),
                      ServerHelloDone(m.seq + 2)>>
        flight == [i \in 1..3 |-> PlainHandshake(seq + i - 1, messages[i])]
    IN  IF Body(m).cookie # Cookie(s.run, client)
        THEN Transmit(x, <<PlainHandshake(seq, HelloVerifyRequest(m.seq, Cookie(s.run, client)))>>, FALSE)
        ELSE Transmit([x EXCEPT !.state = [s EXCEPT !.phase = "AwaitingClientFlight", !.hello = m,
                            !.next0 = seq + 3, !.flight = flight, !.transcript = <<m>> \o messages]],
                      flight, FALSE)

\* The accepted ClientHello again: the flight under fresh numbers, a limited
\* number of times in the life of the session.
RepeatedHello(x, m) ==
    LET s == x.state
        flight == Renumber(s.flight, s.next0)
    IN  IF m = s.hello /\ s.flightRetries < MaxDuplicateFlights
        THEN Transmit([x EXCEPT !.state = [s EXCEPT !.flight = flight, !.flightRetries = @ + 1,
                            !.next0 = @ + EpochZeroCount(flight)]], flight, FALSE)
        ELSE x

\* handle_client_key_exchange and derive_key_material, once per message.
KeyExchange(x, m) ==
    LET s == x.state
        client == Body(s.hello).random
    IN  IF m = s.cke THEN x
        ELSE IF ~Proves(m, client, s.run) THEN SessionFails(x)
        ELSE [x EXCEPT !.state = [s EXCEPT !.cke = m, !.transcript = Append(@, m),
                                           !.key = KeyMaterial(s.secret, client, s.run)]]

\* handle_plaintext_handshake: any message that the phase does not expect
\* ends the session.
PlaintextHandshake(x, m, seq) ==
    CASE m.type = "ClientHello" /\ x.state.phase = "AwaitingClientHello" -> FirstHello(x, m, seq)
      [] m.type = "ClientHello" /\ x.state.phase = "AwaitingClientFlight" -> RepeatedHello(x, m)
      [] m.type = "ClientKeyExchange" /\ x.state.phase = "AwaitingClientFlight" -> KeyExchange(x, m)
      [] OTHER -> SessionFails(x)

\* open_record returns the plaintext.
CanOpen(s, r) == r.seq \notin s.seen /\ s.key # None /\ Opens(r, s.key)

\* handle_encrypted_handshake: dropped before the ChangeCipherSpec and the key
\* exchange; a record that does not authenticate, or a wrong Finished, ends
\* the session.
EncryptedHandshake(x, r) ==
    LET s == x.state
        before == Append(s.transcript, r.message)
        finished == Finished(s.hello.seq + 3, "server", s.key, before)
    IN  IF s.phase # "AwaitingClientFlight" \/ ~s.ccs \/ s.key = None \/ r.seq \in s.seen THEN x
        ELSE IF ~CanOpen(s, r) \/ Body(r.message) # <<"client", s.key, s.transcript>>
        THEN SessionFails(x)
        ELSE Report(FinishedFlight([x EXCEPT !.state =
                        [s EXCEPT !.phase = "Connected", !.seen = @ \cup {r.seq},
                                  !.finished = finished, !.transcript = Append(before, finished)]]),
                    [run |-> s.run, kind |-> "Connected", accepted |-> FALSE])

\* Mutant of Decide: the handler is asked for every request.
DecideAgain(x, accepts) == [x EXCEPT !.state.decision = accepts, !.asked = @ + 1]

\* The handler is asked once; later requests get the same decision.
Decide(x, accepts) ==
    IF x.state.decision # None THEN x
    ELSE [x EXCEPT !.state = [@ EXCEPT !.decision = accepts], !.asked = @ + 1]

\* The JOIN_FIN.rsp with its State TLV.
JoinFinRsp(accepted) == Message("JOIN_FIN.rsp", 0, accepted)

\* Mutant of FinalizeRequest: every request is reported.
FinalizeReported(x, accepts) ==
    LET decided == Decide(x, accepts)
        s == decided.state
    IN  Report(Transmit([decided EXCEPT !.state = [s EXCEPT !.phase = "Finalized", !.next1 = @ + 1]],
                        <<Sealed(s.next1, "data", s.key, JoinFinRsp(s.decision))>>, s.decision),
               [run |-> s.run, kind |-> "Finalized", accepted |-> s.decision])

\* JOIN_FIN.req: the decision is answered, with the KEK if it accepts, and
\* reported the first time.
FinalizeRequest(x, accepts) ==
    LET decided == Decide(x, accepts)
        s == decided.state
        answered == Transmit([decided EXCEPT !.state = [s EXCEPT !.phase = "Finalized", !.next1 = @ + 1]],
                             <<Sealed(s.next1, "data", s.key, JoinFinRsp(s.decision))>>, s.decision)
    IN  IF s.phase = "Finalized" THEN answered
        ELSE Report(answered, [run |-> s.run, kind |-> "Finalized", accepted |-> s.decision])

\* handle_application_data: dropped before the handshake is complete, or when
\* it does not open.  What opens shows that the joiner has our Finished.
\* It is a JOIN_FIN.req, another request, or one that does not parse.
ApplicationData(x, r, accepts) ==
    LET s == x.state
        opened == [x EXCEPT !.state = [s EXCEPT !.seen = @ \cup {r.seq}, !.finished = None]]
    IN  IF ~Established(s) \/ ~CanOpen(s, r) THEN x
        ELSE CASE r.message.type = "JOIN_FIN.req" -> FinalizeRequest(opened, accepts)
               [] r.message.type = "other" -> opened
               [] OTHER -> SessionFails(opened)

\* One record.  Plaintext handshake records count only if the session was not
\* established when the datagram arrived; what no case names is skipped.
SessionRecord(x, r, was, accepts) ==
    CASE r.epoch = 0 /\ r.content = "handshake" /\ ~was -> PlaintextHandshake(x, r.message, r.seq)
      [] r.epoch = 0 /\ r.content = "ccs" -> [x EXCEPT !.state = [@ EXCEPT !.ccs = TRUE]]
      [] r.epoch = 1 /\ r.content = "handshake" -> EncryptedHandshake(x, r)
      [] r.epoch = 1 /\ r.content = "data" -> ApplicationData(x, r, accepts)
      [] r.epoch = 0 /\ r.content = "alert" /\ ~Established(x.state) -> SessionFails(x)
      [] r.epoch = 1 /\ r.content = "alert" /\ CanOpen(x.state, r) -> SessionFails(x)
      [] OTHER -> x

\* JoinerSession::receive.
ReceiveRecords(s, records, accepts) ==
    LET x == Receiving(s)
        again == /\ Established(s) /\ s.finished # None
                 /\ IsClientFinishedFlight(records)
                 /\ s.finishedRetries < MaxDuplicateFlights
        begun == IF again THEN FinishedFlight([x EXCEPT !.state = [s EXCEPT !.finishedRetries = @ + 1]]) ELSE x
        after[n \in 0..Len(records)] ==
            IF n = 0 THEN begun
            ELSE Unless(after[n - 1], SessionRecord(after[n - 1], records[n], Established(s), accepts))
    IN  after[Len(records)]
=============================================================================
