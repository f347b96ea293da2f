------------------------------ MODULE DtlsClient ------------------------------
(***************************************************************************)
(* The DTLS client driver (meshcop-dtls/src/client_driver.rs): connect     *)
(* runs three waits one after the other, each with its own retransmission  *)
(* timer and budget, inside one deadline.                                  *)
(***************************************************************************)
EXTENDS DtlsNetwork

CONSTANT ClientSecret   \* the PSKc this commissioner was given

VARIABLE cl

ClientName(c) == <<"client", c.me>>

\* A call of connect; `me` stands for the random and round one it drew.
ClientStart(me) ==
    [me |-> me, phase |-> "Start", nextMessage |-> 0, lastHello |-> -1, cookie |-> None,
     next0 |-> 0, next1 |-> 0, used |-> 0, flight |-> <<>>, hello |-> None,
     recorded |-> FALSE, serverFlight |-> <<>>, serverHello |-> None, exchange |-> None,
     transcript |-> <<>>, key |-> None, cke |-> None, finished |-> None,
     ccs |-> FALSE, seen |-> {}]

ClientWaiting == {"HelloVerify", "ServerFlight", "ServerFinished"}

ClientFailed(s) == [s EXCEPT !.state.phase = "Failed", !.stop = TRUE]

\* next_client_hello_record, renumbered into a flight of its own and sent.
NextClientHello(s) ==
    LET c == s.state
        message == ClientHello(c.nextMessage, c.me, c.cookie)
        flight == <<PlainHandshake(c.next0, message)>>
    IN  [s EXCEPT !.state = [c EXCEPT !.nextMessage = @ + 1, !.lastHello = c.nextMessage,
                                      !.next0 = @ + 1, !.flight = flight, !.hello = message],
                  !.out = Append(@, flight)]

\* renumber_epoch_zero_flight, then send_records.
ResendClientHello(s) ==
    LET c == s.state
        flight == Renumber(c.flight, c.next0)
    IN  [s EXCEPT !.state = [c EXCEPT !.flight = flight, !.next0 = @ + EpochZeroCount(flight)],
                  !.out = Append(@, flight)]

\* Mutant of SendFinishedFlight: the flight is sent again as it was.
RepeatFinishedFlight(s) ==
    LET c == s.state
        flight == IF c.flight # <<>> /\ c.flight[Len(c.flight)].epoch = 1 THEN c.flight
                  ELSE <<PlainHandshake(c.next0, c.cke), ChangeCipherSpec(c.next0 + 1),
                         Sealed(c.next1, "handshake", c.key, c.finished)>>
    IN  [s EXCEPT !.state = [c EXCEPT !.flight = flight, !.next0 = @ + 2],
                  !.out = Append(@, flight)]

\* build_client_finished_flight: fresh record numbers in both epochs.
SendFinishedFlight(s) ==
    LET c == s.state
        flight == <<PlainHandshake(c.next0, c.cke), ChangeCipherSpec(c.next0 + 1),
                    Sealed(c.next1, "handshake", c.key, c.finished)>>
    IN  [s EXCEPT !.state = [c EXCEPT !.flight = flight, !.next0 = @ + 2, !.next1 = @ + 1],
                  !.out = Append(@, flight)]

\* connect_inner after the server's flight: the ClientKeyExchange enters the
\* transcript before the Finished is computed over it, and the Finished after.
\* A round two that does not verify ends the handshake.
ClientFinishes(s) ==
    LET c == s.state
        cke == ClientKeyExchange(c.nextMessage, c.me, c.serverHello)
        key == KeyMaterial(ClientSecret, c.me, c.serverHello)
        finished == Finished(c.nextMessage + 1, "client", key, Append(c.transcript, cke))
    IN  IF ~Proves(c.exchange, c.serverHello, c.me) THEN ClientFailed(s)
        ELSE [SendFinishedFlight([s EXCEPT !.state =
                 [c EXCEPT !.phase = "ServerFinished", !.used = 0, !.cke = cke, !.key = key,
                           !.finished = finished, !.next1 = 0,
                           !.transcript = c.transcript \o <<cke, finished>>]])
              EXCEPT !.stop = TRUE]

\* One record in wait_for_hello_verify.  handle_hello_verify_request takes
\* the cookie only for the ClientHello sent last; the second ClientHello
\* follows at once.
HelloVerifyRecord(s, r) ==
    IF r.content = "alert" THEN ClientFailed(s)
    ELSE IF r.content # "handshake" \/ r.epoch # 0 THEN s
    ELSE IF r.message.type # "HelloVerifyRequest" THEN s
    ELSE IF r.message.seq # s.state.lastHello THEN ClientFailed(s)
    ELSE [NextClientHello([s EXCEPT !.state =
                [@ EXCEPT !.cookie = Body(r.message), !.phase = "ServerFlight", !.used = 0]])
          EXCEPT !.stop = TRUE]

\* Mutant of HelloVerifyInFlight: a late HelloVerifyRequest is always obeyed.
HelloVerifyAlwaysObeyed(s, m) ==
    [NextClientHello([s EXCEPT !.state.cookie = Body(m)]) EXCEPT !.stop = TRUE]

\* HelloVerifyRequest in wait_for_server_flight: stale once a ServerHello has
\* been recorded; otherwise, within the budget, a new cookie makes a new
\* ClientHello and a repeated one resends the last; the rest of the datagram
\* is dropped.
HelloVerifyInFlight(s, m) ==
    IF s.state.recorded \/ s.state.used >= MaxDuplicateRetransmissions THEN s
    ELSE [IF m.seq = s.state.lastHello
          THEN NextClientHello([s EXCEPT !.state = [s.state EXCEPT !.used = @ + 1, !.cookie = Body(m)]])
          ELSE ResendClientHello([s EXCEPT !.state.used = @ + 1])
          EXCEPT !.stop = TRUE]

\* One message in wait_for_server_flight.
ServerFlightMessage(s, m) ==
    LET c == s.state
        hasExchange == \E i \in 1..Len(c.serverFlight) :
                            c.serverFlight[i].type = "ServerKeyExchange"
    IN  CASE \E i \in 1..Len(c.serverFlight) : c.serverFlight[i] = m -> s
          [] m.type = "ServerHello" ->
                [s EXCEPT !.state =
                    [c EXCEPT !.recorded = TRUE, !.serverHello = Body(m),
                              !.transcript = (IF c.recorded THEN @ ELSE Append(@, c.hello)) \o <<m>>,
                              !.serverFlight = Append(@, m)]]
          [] m.type = "ServerKeyExchange" ->
                IF ~c.recorded THEN s
                ELSE [s EXCEPT !.state = [c EXCEPT !.exchange = m, !.transcript = Append(@, m),
                                                   !.serverFlight = Append(@, m)]]
          [] m.type = "ServerHelloDone" ->
                IF ~c.recorded \/ ~hasExchange THEN s
                ELSE ClientFinishes([s EXCEPT !.state =
                        [c EXCEPT !.transcript = Append(@, m), !.serverFlight = Append(@, m)]])
          [] m.type = "HelloVerifyRequest" -> HelloVerifyInFlight(s, m)
          [] OTHER -> ClientFailed(s)

\* A sealed record parses as no handshake message and is skipped.
ServerFlightRecord(s, r) ==
    IF r.content = "alert" THEN ClientFailed(s)
    ELSE IF r.content # "handshake" \/ r.epoch # 0 THEN s
    ELSE ServerFlightMessage(s, r.message)

\* One record in wait_for_server_finished.  A Finished is only looked at
\* after the ChangeCipherSpec; one that does not authenticate, or does not
\* match the transcript, ends the handshake.
ServerFinishedRecord(s, r) ==
    LET c == s.state
    IN  CASE r.epoch = 0 /\ r.content = "ccs" -> [s EXCEPT !.state.ccs = TRUE]
          [] r.epoch = 1 /\ r.content = "handshake" ->
                IF ~c.ccs \/ r.seq \in c.seen THEN s
                ELSE IF ~Opens(r, c.key) THEN ClientFailed(s)
                ELSE IF Body(r.message) # <<"server", c.key, c.transcript>>
                     THEN ClientFailed([s EXCEPT !.state.seen = @ \cup {r.seq}])
                ELSE [s EXCEPT !.state = [c EXCEPT !.seen = @ \cup {r.seq}, !.phase = "Done",
                                                   !.transcript = Append(@, r.message)],
                               !.stop = TRUE]
          [] r.content = "alert" ->
                IF r.epoch = 0 \/ (r.seq \notin c.seen /\ Opens(r, c.key))
                THEN ClientFailed(s) ELSE s
          [] OTHER -> s

\* repeats_final_server_message: only the last message of the server's flight
\* asks for the client's flight again, before the records are looked at.
AnswersRepeatedFlight(s, records) ==
    LET c == s.state
    IN  IF /\ ContainsMessage(records, c.serverFlight[Len(c.serverFlight)])
           /\ c.used < MaxDuplicateRetransmissions
        THEN SendFinishedFlight([s EXCEPT !.state.used = @ + 1])
        ELSE s

\* One record, in the wait that the driver was in when its datagram arrived.
ClientRecord(phase, s, r) ==
    CASE phase = "HelloVerify" -> HelloVerifyRecord(s, r)
      [] phase = "ServerFlight" -> ServerFlightRecord(s, r)
      [] phase = "ServerFinished" -> ServerFinishedRecord(s, r)
      [] OTHER -> s

\* Every record of a datagram, one after the other.
ClientDatagram(c, records) ==
    LET begun == IF c.phase = "ServerFinished" THEN AnswersRepeatedFlight(Step(c), records)
                 ELSE Step(c)
        after[n \in 0..Len(records)] ==
            IF n = 0 THEN begun
            ELSE Unless(after[n - 1], ClientRecord(c.phase, after[n - 1], records[n]))
    IN  after[Len(records)]

ClientDoes(taken, s) ==
    /\ cl' = s.state
    /\ Exchange(taken, "server", ClientName(cl), s.out)

\* connect: the first ClientHello.
Connect ==
    /\ cl.phase = "Start"
    /\ ClientDoes({}, NextClientHello(Step([cl EXCEPT !.phase = "HelloVerify"])))
    /\ UNCHANGED faults

ClientReceives(d, again) ==
    /\ d.to = "client"
    /\ Taken(d, again)
    /\ ClientDoes(IF again THEN {} ELSE {d}, ClientDatagram(cl, d.records))

\* The retransmission timer of the wait the client is in.
ClientTimer ==
    /\ cl.phase \in ClientWaiting
    /\ ClientDoes({}, IF cl.phase = "ServerFinished" THEN SendFinishedFlight(Step(cl))
                      ELSE ResendClientHello(Step(cl)))

\* with_timeout around connect_inner.
ClientDeadline ==
    /\ cl.phase \in ClientWaiting
    /\ cl' = [cl EXCEPT !.phase = "TimedOut"]
    /\ Fault
    /\ UNCHANGED <<net, wire>>

\* send_application_data.
ClientSends ==
    /\ cl.phase = "Done"
    /\ cl.next1 < MaxRecords
    /\ cl' = [cl EXCEPT !.next1 = @ + 1]
    /\ Exchange({}, "server", ClientName(cl), <<<<Sealed(cl.next1, "data", cl.key, None)>>>>)
    /\ UNCHANGED faults
=============================================================================
