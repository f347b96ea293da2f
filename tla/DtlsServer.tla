------------------------------ MODULE DtlsServer ------------------------------
(***************************************************************************)
(* The DTLS server driver (meshcop-dtls/src/server_driver.rs): accept      *)
(* answers ClientHellos without state until one echoes its cookie, runs    *)
(* the rest of the handshake with that client, and leaves a session that   *)
(* repeats its Finished until the client shows it has it.                  *)
(***************************************************************************)
EXTENDS DtlsNetwork

CONSTANTS
    ServerSecrets,      \* the PSKs the server may have been given
    MaxAccepts          \* bound on the times accept is called

ASSUME AcceptsAssumption == MaxAccepts \in Nat \ {0}

VARIABLE sv

\* A call of accept, the run-th: a new cookie key, random and round one.
ServerStart(run, secret) ==
    [run |-> run, secret |-> secret, phase |-> "Cookie", next0 |-> 0, next1 |-> 0, used |-> 0,
     hello |-> None, flight |-> <<>>, ccs |-> FALSE, cke |-> None, key |-> None,
     transcript |-> <<>>, finished |-> None, seen |-> {}]

ServerName(s) == <<"server", s.run>>

\* handle_client_hello and the three messages that answer it, numbered from
\* the sequence numbers of the ClientHello and its record.
AcceptClientHello(s, r) ==
    LET m == r.message
        client == Body(m).random
        messages == <<ServerHello(m.seq, s.state.run),
                      ServerKeyExchange(m.seq + 1, s.state.run, client),
                      ServerHelloDone(m.seq + 2)>>
        flight == [i \in 1..3 |-> PlainHandshake(r.seq + i - 1, messages[i])]
    IN  [s EXCEPT !.state = [@ EXCEPT !.phase = "ClientFinished", !.used = 0, !.hello = m,
                                      !.next0 = r.seq + 3, !.flight = flight,
                                      !.transcript = <<m>> \o messages],
                  !.out = Append(@, flight), !.stop = TRUE]

\* One record in the cookie loop: nothing is kept of a ClientHello without
\* the cookie of this accept, and its answer copies its sequence numbers.
CookieRecord(s, r) ==
    IF r.epoch # 0 \/ r.content # "handshake" THEN s
    ELSE IF r.message.type # "ClientHello" THEN s
    ELSE LET cookie == Cookie(s.state.run, Body(r.message).random)
         IN  IF Body(r.message).cookie = cookie THEN AcceptClientHello(s, r)
             ELSE [s EXCEPT !.out = Append(@,
                    <<PlainHandshake(r.seq, HelloVerifyRequest(r.message.seq, cookie))>>)]

\* renumber_epoch_zero_flight, then send_records.
ResendServerFlight(s) ==
    LET c == s.state
        flight == Renumber(c.flight, c.next0)
    IN  [s EXCEPT !.state = [c EXCEPT !.flight = flight, !.next0 = @ + EpochZeroCount(flight)],
                  !.out = Append(@, flight)]

\* build_server_finished_flight.
SendServerFinished(s) ==
    LET c == s.state
    IN  [s EXCEPT !.state = [c EXCEPT !.next0 = @ + 1, !.next1 = @ + 1],
                  !.out = Append(@, <<ChangeCipherSpec(c.next0),
                                      Sealed(c.next1, "handshake", c.key, c.finished)>>)]

\* send_fatal_handshake_alert, after which accept returns the error.
ServerFailsAloud(s) ==
    [s EXCEPT !.state.phase = "Failed", !.out = Append(@, <<FatalAlert(s.state.next0)>>),
              !.stop = TRUE]

\* accept returns an error of its own accord.
ServerFailsQuietly(s) == [s EXCEPT !.state.phase = "Failed", !.stop = TRUE]

\* handle_client_key_exchange and derive_key_material, unless the message
\* repeats the one handled last.
ClientKeyExchangeArrives(s, m) ==
    LET c == s.state
        client == Body(c.hello).random
    IN  IF m = c.cke THEN s
        ELSE IF ~Proves(m, client, c.run) THEN ServerFailsQuietly(s)
        ELSE [s EXCEPT !.state = [c EXCEPT !.cke = m, !.transcript = Append(@, m),
                                           !.key = KeyMaterial(c.secret, client, c.run)]]

\* Mutant of ClientFinishedArrives: the Finished is taken without comparing
\* its verify_data.
ClientFinishedTrusted(s, r) ==
    LET c == s.state
    IN  IF ~c.ccs \/ c.key = None THEN s
        ELSE [SendServerFinished([s EXCEPT !.state = [c EXCEPT !.phase = "Done", !.used = 0,
                 !.finished = Finished(c.hello.seq + 3, "server", c.key,
                                       Append(c.transcript, r.message)),
                 !.transcript = Append(@, r.message)]])
              EXCEPT !.stop = TRUE]

\* A protected handshake record: dropped before the ChangeCipherSpec or the
\* key exchange, fatal when it does not authenticate or verify.
ClientFinishedArrives(s, r) ==
    LET c == s.state
    IN  IF ~c.ccs \/ c.key = None THEN s
        ELSE IF ~Opens(r, c.key) THEN ServerFailsAloud(s)
        ELSE IF Body(r.message) # <<"client", c.key, c.transcript>> THEN ServerFailsAloud(s)
        ELSE LET before == Append(c.transcript, r.message)
                 finished == Finished(c.hello.seq + 3, "server", c.key, before)
             IN  [SendServerFinished([s EXCEPT !.state = [c EXCEPT !.phase = "Done", !.used = 0,
                     !.finished = finished, !.transcript = Append(before, finished)]])
                  EXCEPT !.stop = TRUE]

\* One record while the server waits for the client's Finished.
ClientFlightRecord(s, r) ==
    CASE r.epoch = 0 /\ r.content = "handshake" /\ r.message.type = "ClientKeyExchange" ->
            ClientKeyExchangeArrives(s, r.message)
      [] r.epoch = 0 /\ r.content = "ccs" -> [s EXCEPT !.state.ccs = TRUE]
      [] r.epoch = 1 /\ r.content = "handshake" -> ClientFinishedArrives(s, r)
      [] r.epoch = 0 /\ r.content = "alert" -> ServerFailsQuietly(s)
      [] OTHER -> s

\* A datagram that repeats the accepted ClientHello gets the flight again,
\* within the budget, and is not looked at further.
AnswersClientHello(s, records) ==
    IF s.state.used < MaxDuplicateRetransmissions
    THEN ResendServerFlight([s EXCEPT !.state.used = @ + 1])
    ELSE s

\* open_next_record on an established session: the first application record
\* that opens shows that the client has our Finished, and the receive call
\* returns, so the next one starts with a new budget.
SessionRecord(s, r) ==
    IF r.epoch = 1 /\ r.content = "data" /\ r.seq \notin s.state.seen /\ Opens(r, s.state.key)
    THEN [s EXCEPT !.state = [s.state EXCEPT !.seen = @ \cup {r.seq}, !.finished = None, !.used = 0]]
    ELSE s

\* Mutant of FinishedRetry: the session never repeats its Finished.
NoFinishedRetry(s, records) == s

\* take_server_finished_retry in recv_application_data_inner.
FinishedRetry(s, records) ==
    IF /\ s.state.finished # None
       /\ IsClientFinishedFlight(records)
       /\ s.state.used < MaxDuplicateRetransmissions
    THEN SendServerFinished([s EXCEPT !.state.used = @ + 1])
    ELSE s

\* One record, in the phase that the driver was in when its datagram arrived.
ServerRecord(phase, s, r) ==
    CASE phase = "Cookie" -> CookieRecord(s, r)
      [] phase = "ClientFinished" -> ClientFlightRecord(s, r)
      [] phase = "Done" -> SessionRecord(s, r)
      [] OTHER -> s

\* Every record of a datagram, one after the other, unless it only repeats the
\* accepted ClientHello.
ServerDatagram(s, records) ==
    LET repeated == s.phase = "ClientFinished" /\ ContainsMessage(records, s.hello)
        begun == IF s.phase = "Done" THEN FinishedRetry(Step(s), records) ELSE Step(s)
        after[n \in 0..Len(records)] ==
            IF n = 0 THEN begun
            ELSE Unless(after[n - 1], ServerRecord(s.phase, after[n - 1], records[n]))
    IN  IF repeated THEN AnswersClientHello(Step(s), records) ELSE after[Len(records)]

ServerDoes(taken, s) ==
    /\ sv' = s.state
    /\ Exchange(taken, "client", ServerName(sv), s.out)

ServerReceives(d, again) ==
    /\ d.to = "server"
    /\ Taken(d, again)
    /\ ServerDoes(IF again THEN {} ELSE {d}, ServerDatagram(sv, d.records))

ServerTimer ==
    /\ sv.phase = "ClientFinished"
    /\ ServerDoes({}, ResendServerFlight(Step(sv)))

\* with_timeout around accept_inner, or the process stops.
ServerDeadline ==
    /\ sv.phase \in {"Cookie", "ClientFinished"}
    /\ sv' = [sv EXCEPT !.phase = "TimedOut"]
    /\ Fault
    /\ UNCHANGED <<net, wire>>

\* accept is called again after an error, or by the process that takes the
\* place of one that stopped.
AcceptAgain ==
    /\ sv.phase \in {"Failed", "TimedOut", "Done"}
    /\ sv.run < MaxAccepts
    /\ sv' = ServerStart(sv.run + 1, sv.secret)
    /\ UNCHANGED network

\* send_application_data.
ServerSends ==
    /\ sv.phase = "Done"
    /\ sv.next1 < MaxRecords
    /\ sv' = [sv EXCEPT !.next1 = @ + 1]
    /\ Exchange({}, "client", ServerName(sv), <<<<Sealed(sv.next1, "data", sv.key, None)>>>>)
    /\ UNCHANGED faults

\* recv_application_data times out and is called again.
ReceiveAgain ==
    /\ sv.phase = "Done"
    /\ sv.used > 0
    /\ sv' = [sv EXCEPT !.used = 0]
    /\ UNCHANGED network
=============================================================================
