---------------------------- MODULE DtlsMessages ----------------------------
(***************************************************************************)
(* Handshake messages, records, transcripts and keys of the Thread DTLS    *)
(* profile (meshcop-dtls: handshake.rs, hello.rs, flight.rs, record.rs,    *)
(* thread_handshake.rs, thread_server_handshake.rs).  Random values and    *)
(* EC-JPAKE parameters are the number of the run that drew them, and a     *)
(* message body is the record of the facts that the other side reads off.  *)
(* Cryptography is ideal: a MAC, a cookie or a key is the tuple of         *)
(* everything it is computed from.                                         *)
(***************************************************************************)
EXTENDS Integers, Sequences, FiniteSets

CONSTANT None   \* an absent value

Message(type, seq, body) == [type |-> type, seq |-> seq, payload |-> <<type, body>>]
Body(m) == m.payload[2]

\* A record carries one handshake message, a ChangeCipherSpec, an alert or
\* application data; an epoch-1 record is sealed under a key.
Record(epoch, seq, content, key, message) ==
    [epoch |-> epoch, seq |-> seq, content |-> content, key |-> key, message |-> message]

PlainHandshake(seq, message) == Record(0, seq, "handshake", None, message)
ChangeCipherSpec(seq) == Record(0, seq, "ccs", None, None)
Sealed(seq, content, key, message) == Record(1, seq, content, key, message)
FatalAlert(seq) == Record(0, seq, "alert", None, None)

\* open_aes_128_ccm_8_record: only the key that sealed the record opens it.
Opens(record, key) == record.epoch = 1 /\ record.key = key

ClientHello(seq, client, cookie) ==
    Message("ClientHello", seq, [random |-> client, cookie |-> cookie])

HelloVerifyRequest(seq, cookie) == Message("HelloVerifyRequest", seq, cookie)

\* DtlsCookieGenerator::cookie: an HMAC, under the key this accept drew, over
\* the client's random.
Cookie(server, client) == <<"cookie", server, client>>

\* The three messages of the server's flight.  The key exchange is EC-JPAKE
\* round two, computed from both parties' round one.
ServerHello(seq, server) == Message("ServerHello", seq, server)
ServerKeyExchange(seq, server, client) == Message("ServerKeyExchange", seq, <<server, client>>)
ServerHelloDone(seq) == Message("ServerHelloDone", seq, None)
ClientKeyExchange(seq, client, server) == Message("ClientKeyExchange", seq, <<client, server>>)

\* EcJpake::finish takes the peer's round two only if its proof verifies over
\* the generator of both round ones; the secret plays no part in that.
Proves(exchange, prover, verifier) == Body(exchange) = <<prover, verifier>>

\* derive_key_material after that check: EC-JPAKE over the secret and both
\* round ones, then the key schedule over both randoms.
KeyMaterial(secret, client, server) == <<secret, client, server>>

\* HandshakeTranscript::finished_verify_data.
Finished(seq, role, key, transcript) == Message("Finished", seq, <<role, key, transcript>>)

\* How many of the first n records of a flight are plaintext ones.
PlaintextIn(flight, n) == Cardinality({i \in 1..n : flight[i].epoch = 0})

\* renumber_epoch_zero_flight: the n-th plaintext record of the flight takes
\* the n-th number from the counter; sealed records keep theirs.
Renumber(flight, next) ==
    [i \in 1..Len(flight) |->
        IF flight[i].epoch = 0
        THEN [flight[i] EXCEPT !.seq = next + PlaintextIn(flight, i - 1)]
        ELSE flight[i]]

EpochZeroCount(flight) == PlaintextIn(flight, Len(flight))

\* is_client_finished_flight.
IsClientFinishedFlight(records) ==
    \E i \in 1..Len(records) :
        LET r == records[i]
        IN  \/ r.epoch = 0 /\ r.content = "handshake" /\ r.message.type = "ClientKeyExchange"
            \/ r.epoch = 1 /\ r.content = "handshake"

\* Records in which a plaintext handshake message appears.
ContainsMessage(records, message) ==
    \E i \in 1..Len(records) :
        /\ records[i].epoch = 0
        /\ records[i].content = "handshake"
        /\ records[i].message = message

\* What a driver makes of a datagram: its state, the flights it sent, and
\* whether the records left in the datagram are dropped.
Step(state) == [state |-> state, out |-> <<>>, stop |-> FALSE]

Unless(s, next) == IF s.stop THEN s ELSE next
=============================================================================
