------------------------------- MODULE Codecs -------------------------------
(***************************************************************************)
(* What the codecs are put through.  A behavior is one of four stories:    *)
(* a dataset is edited, written and read again; a message is encoded and   *)
(* arrives, perhaps short; the fragments of handshake messages come in any *)
(* order; two parties run the EC J-PAKE exchange.                          *)
(***************************************************************************)
EXTENDS Commands, Reassembly, EcJpake

CONSTANTS
    Values,         \* by TLV type: the typed values a dataset is given
    Versions,       \* the protocol version thresholds that are set
    Messages,       \* the CoAP messages that are sent, and what each of them says
    Originals,      \* the handshake messages that are fragmented
    Passwords,      \* the secrets the two parties are given
    Nonces          \* the random scalars of their proofs

VARIABLES
    story,          \* which of the four this behavior is
    dataset,        \* Dataset: its TLVs
    given,          \* by type: the value it was last given, None without one
    message,        \* the CoAP message that is sent
    arrived,        \* how many of its bytes arrived, None before
    read,           \* the CoAP message they were decoded into, or Err
    report,         \* what the receiver takes it to say
    reassembler,    \* HandshakeReassembler
    offered,        \* the fragments pushed into it so far
    latest,         \* the fragment pushed last and what push returned
    client, server, \* the parties of the exchange
    sent,           \* the key-exchange messages sent so far, encoded
    key             \* the session key of each party, None until it has one

vars == <<story, dataset, given, message, arrived, read, report, reassembler,
          offered, latest, client, server, sent, key>>

datasetVars == <<dataset, given>>
messageVars == <<message, arrived, read, report>>
fragmentVars == <<reassembler, offered, latest>>
exchangeVars == <<client, server, sent, key>>

-----------------------------------------------------------------------------
(* Typed values as the bytes the setters write, and as the getters read     *)
(* them.  A security policy is its rotation time, its version threshold and *)
(* the other flags.                                                         *)

FlagBits(bits) == MapThenSumSet(LAMBDA i : 2^i, bits)

ToValue(ty, v) ==
    CASE ty = TlvChannel -> ChannelValue(v)
      [] ty = TlvActiveTimestamp -> Timestamp(v.seconds, v.ticks, v.authoritative)
      [] ty = TlvSecurityPolicy ->
            SecurityPolicyValue([rotation |-> v.rotation,
                                 flags |-> SetVersionThreshold(FlagBits(v.others), v.version)])
      [] ty = TlvChannelMask -> EncodeChannelMask(v)
      [] ty = TlvPskc -> v

Components(ty, value) ==
    IF value \in {None, Err} THEN value
    ELSE CASE ty = TlvActiveTimestamp ->
                [seconds |-> TimestampSeconds(value), ticks |-> TimestampTicks(value),
                 authoritative |-> TimestampAuthoritative(value)]
           [] ty = TlvSecurityPolicy ->
                [rotation |-> value.rotation, version |-> VersionThreshold(value.flags),
                 others |-> {i \in (0..12) \ {LegacyRouters} : Flag(value.flags, i)}]
           [] OTHER -> value

SetValue(ty, v) ==
    /\ story = "dataset"
    /\ dataset' = SetRaw(dataset, ty, ToValue(ty, v))
    /\ given' = [given EXCEPT ![ty] = v]
    /\ UNCHANGED <<story, messageVars, fragmentVars, exchangeVars>>

RemoveValue(ty) ==
    /\ story = "dataset"
    /\ dataset' = RemoveAll(dataset, ty)
    /\ given' = [given EXCEPT ![ty] = None]
    /\ UNCHANGED <<story, messageVars, fragmentVars, exchangeVars>>

\* The policy is read, its threshold set, and the policy written back.
SetVersion(version) ==
    LET policy == Get(dataset, TlvSecurityPolicy)
        changed == [policy EXCEPT !.flags = SetVersionThreshold(@, version)]
    IN  /\ story = "dataset" /\ policy # None
        /\ dataset' = SetRaw(dataset, TlvSecurityPolicy, SecurityPolicyValue(changed))
        /\ given' = [given EXCEPT ![TlvSecurityPolicy].version = version]
        /\ UNCHANGED <<story, messageVars, fragmentVars, exchangeVars>>

\* to_bytes, then from_bytes on what was written.
Reload ==
    /\ story = "dataset"
    /\ dataset' = ParseTlvs(EncodeTlvs(dataset))
    /\ UNCHANGED <<story, given, messageVars, fragmentVars, exchangeVars>>

-----------------------------------------------------------------------------
\* What a receiver makes of a message.
Understood(m) ==
    IF m.code = CodeChanged THEN ParsePetitionResponse(m)
    ELSE IF UriPath(m) = UdpRx THEN ParseUdpRx(m) ELSE ParseNotification(m)

\* The first n bytes of the message arrive and are read.
Arrive(n) ==
    /\ story = "message" /\ arrived = None
    /\ arrived' = n
    /\ read' = Decode(Take(Encode(message.coap), n))
    /\ report' = IF read' = Err THEN Err ELSE Understood(read')
    /\ UNCHANGED <<story, message, datasetVars, fragmentVars, exchangeVars>>

\* The fragments of the messages, cut at any size, as they are read again.
Fragmented ==
    LET cut(m) == UNION {ToSet(Fragments(m, max)) : max \in 1..Max({1, Len(m.payload)})}
    IN  {ParseFragment(EncodeFragment(f)) : f \in UNION {cut(m) : m \in Originals}}

\* A fragment arrives and is pushed.
DeliverFragment(f) ==
    /\ story = "fragments"
    /\ LET push == Push(reassembler, f)
       IN  /\ reassembler' = push.reassembler
           /\ latest' = [fragment |-> f, result |-> push.result]
    /\ offered' = offered \cup {f}
    /\ UNCHANGED <<story, datasetVars, messageVars, exchangeVars>>

-----------------------------------------------------------------------------
(* The exchange as the two handshake state machines make it.  Each side     *)
(* encodes what it sends and decodes what it gets; a refusal ends its part  *)
(* with Err for a key.                                                      *)

\* ThreadDtlsHandshake::new: a party and its first round, made at the start.
Joining(id, secret, x1, x2, nonce) ==
    LET p == Party(id, secret, x1, x2)
    IN  [party |-> p, one |-> RoundOne(p, nonce), nonce |-> nonce]

SecondRound(self, peer, withCurve) ==
    LET two == RoundTwo(self.party, self.one, peer, self.nonce)
    IN  IF two = Err THEN Err ELSE EncodeRoundTwo(two, withCurve)

\* handle_client_hello, build_server_hello, build_server_key_exchange.
ServerFlight ==
    LET peer == DecodeRoundOne(sent.clientHello, ClientId)
        hello == EncodeRoundOne(server.one)
        two == IF peer = Err THEN Err ELSE SecondRound(server, peer, TRUE)
    IN  /\ story = "exchange" /\ sent.serverHello = None /\ key.server = None
        /\ IF hello = Err \/ two = Err
           THEN key' = [key EXCEPT !.server = Err] /\ UNCHANGED sent
           ELSE /\ sent' = [sent EXCEPT !.serverHello = hello, !.serverKey = two]
                /\ UNCHANGED key
        /\ UNCHANGED <<story, client, server, datasetVars, messageVars, fragmentVars>>

\* handle_server_hello, handle_server_key_exchange, build_client_key_exchange,
\* derive_key_material.
ClientFlight ==
    LET peer == DecodeRoundOne(sent.serverHello, ServerId)
        peerTwo == IF peer = Err THEN Err ELSE DecodeRoundTwo(sent.serverKey, ServerId, TRUE)
        two == IF peerTwo = Err THEN Err ELSE SecondRound(client, peer, FALSE)
        mine == IF two = Err THEN Err ELSE Finish(client.party, client.one, peer, peerTwo)
    IN  /\ story = "exchange" /\ sent.serverHello # None /\ key.client = None
        /\ key' = [key EXCEPT !.client = mine]
        /\ sent' = IF mine = Err THEN sent ELSE [sent EXCEPT !.clientKey = two]
        /\ UNCHANGED <<story, client, server, datasetVars, messageVars, fragmentVars>>

\* handle_client_key_exchange, derive_key_material.
ServerFinish ==
    LET peer == DecodeRoundOne(sent.clientHello, ClientId)
        two == DecodeRoundTwo(sent.clientKey, ClientId, FALSE)
    IN  /\ story = "exchange" /\ sent.clientKey # None /\ key.server = None
        /\ key' = [key EXCEPT !.server =
                       IF two = Err THEN Err ELSE Finish(server.party, server.one, peer, two)]
        /\ UNCHANGED <<story, client, server, sent, datasetVars, messageVars, fragmentVars>>

-----------------------------------------------------------------------------
NothingElse ==
    /\ dataset = <<>> /\ given = [ty \in DOMAIN Values |-> None]
    /\ arrived = None /\ read = None /\ report = None
    /\ reassembler = Empty /\ offered = {} /\ latest = None
    /\ key = [client |-> None, server |-> None]

NoParties == client = None /\ server = None /\ sent = None

Init ==
    /\ NothingElse
    /\ \/ story \in {"dataset", "fragments"} /\ message = None /\ NoParties
       \/ story = "message" /\ message \in Messages /\ NoParties
       \/ /\ story = "exchange" /\ message = None
          /\ \E c, s \in Passwords, x1, x2, x3, x4 \in 1..(Q - 1), nonce \in Nonces :
                /\ client = Joining(ClientId, c, x1, x2, nonce)
                /\ server = Joining(ServerId, s, x3, x4, nonce)
                /\ sent = [clientHello |-> EncodeRoundOne(client.one), serverHello |-> None,
                           serverKey |-> None, clientKey |-> None]

Next ==
    \/ \E ty \in DOMAIN Values : \E v \in Values[ty] : SetValue(ty, v)
    \/ \E ty \in DOMAIN Values : RemoveValue(ty)
    \/ \E version \in Versions : SetVersion(version)
    \/ Reload
    \/ \E n \in 0..(IF message = None THEN 0 ELSE Len(Encode(message.coap))) : Arrive(n)
    \/ \E f \in Fragmented : DeliverFragment(f)
    \/ ServerFlight
    \/ ClientFlight
    \/ ServerFinish

CodecsSpec == Init /\ [][Next]_vars

-----------------------------------------------------------------------------
(* Whatever edits a dataset went through, in whatever order, what is        *)
(* written reads back as the same entries, every getter returns the value   *)
(* last given (dataset.rs: set_raw, the typed values, the "faithful         *)
(* inverse" of set_version_threshold_for_routing, which leaves the other    *)
(* flags alone), and no type is there twice.                                *)
DatasetReadsBack ==
    story = "dataset" =>
        LET again == ParseTlvs(EncodeTlvs(dataset))
        IN  /\ again = dataset
            /\ \A ty \in DOMAIN Values :
                  /\ Components(ty, Get(again, ty)) = given[ty]
                  /\ Len(SelectSeq(again, LAMBDA e : e.ty = ty)) <= 1

\* What a message without its last TLVs may still say: less, nothing else.
LessReport(u, w) ==
    /\ DOMAIN u = DOMAIN w
    /\ \A f \in DOMAIN u :
          \/ u[f] = w[f]
          \/ u[f] = None
          \/ f = "list" /\ u[f] = <<>>
          \/ f = "mask" /\ u[f] = Fill(4, 0)

LessData(u, w) ==
    \A ty \in DiagTypes :
        u[ty] = w[ty] \/ u[ty] = None \/ (ty = ChildIpv6 /\ IsPrefix(u[ty], w[ty]))

(* A message that arrives whole is read as it was sent, down to the last    *)
(* field that its sender wrote into it.  One that arrives short is refused  *)
(* or is the same message with fewer options or less payload, never others  *)
(* (coap.rs decode, tlv.rs parse).  A relayed or proxied datagram and a PAN *)
(* ID conflict are then never taken for anything but the whole; of a        *)
(* diagnostic answer, an energy report and a petition response fields may   *)
(* be missing, but a field that is there is the one sent (parsers.rs,       *)
(* diag/decode.rs).                                                         *)
ShortIsNeverMisread ==
    arrived # None =>
        LET sorted == [message.coap EXCEPT !.options = Sorted(@)]
            whole == message.says
        IN  /\ arrived = Len(Encode(message.coap)) => read = sorted /\ report = whole
            /\ read # Err =>
                  /\ [read EXCEPT !.options = <<>>, !.payload = <<>>]
                        = [sorted EXCEPT !.options = <<>>, !.payload = <<>>]
                  /\ IsPrefix(read.options, sorted.options)
                  /\ IsPrefix(read.payload, sorted.payload)
                  /\ \/ ParseTlvs(read.payload) = Err
                     \/ IsPrefix(ParseTlvs(read.payload), ParseTlvs(sorted.payload))
                  /\ \/ report = Err \/ report = None \/ report = whole
                     \/ /\ report.kind \in {"Petition", "EnergyReport"}
                        /\ LessReport(report, whole)
                     \/ /\ report.kind = "DiagGetAnswer" /\ whole.kind = "DiagGetAnswer"
                        /\ LessData(report.data, whole.data)

\* The fragments offered that are of the message being put together.
Accepted ==
    {f \in offered : /\ f.ty = reassembler.ty /\ f.seq = reassembler.seq
                     /\ f.length = Len(reassembler.bytes)}

(* The reassembler returns a message only when every byte of it arrived,    *)
(* each byte as some fragment of that message brought it, and exactly the   *)
(* original as long as one sender's fragments are all there was, in any     *)
(* order, repeated or cut differently (HandshakeReassembler::push).  The    *)
(* fragments of one message are never refused.                              *)
ReassembledWhole ==
    latest # None =>
        LET result == latest.result
            origins == {m \in Originals : m.ty = reassembler.ty /\ m.seq = reassembler.seq
                                          /\ Len(m.payload) = Len(reassembler.bytes)}
            pure == {m \in origins :
                        \A f \in Accepted : f.piece = SubSeq(m.payload, f.offset + 1,
                                                             f.offset + Len(f.piece))}
        IN  /\ result # None /\ result # Err =>
                  /\ \A i \in DOMAIN result.payload : \E f \in Accepted :
                        i \in Span(f) /\ f.piece[i - f.offset] = result.payload[i]
                  /\ pure # {} => result \in pure
            /\ pure # {} /\ UNION {Span(f) : f \in Accepted} = DOMAIN reassembler.bytes
                  => reassembler.filled = DOMAIN reassembler.bytes
            /\ result = Err => latest.fragment \notin Accepted \/ pure = {}

\* The two secrets as they are used.
Secret(self) == self.party.secret
Sum(a, b, c, d) == (a + b + c + d) % Q

(* With the same password both sides derive the same key, and neither       *)
(* refuses the other except where a point is the identity (one exchange in  *)
(* about 2^256).  With different passwords the keys differ except where the *)
(* four exponents cancel out or the shared points are opposite, which no    *)
(* side can bring about (EcJpakeParty::round_two, finish).                  *)
KeysMatchPasswords ==
    story = "exchange" =>
        LET x1 == client.party.x1
            x2 == client.party.x2
            x3 == server.party.x1
            x4 == server.party.x2
            c == Secret(client)
            s == Secret(server)
            identity == 0 \in {Sum(x1, x3, 0, 0), Sum(x1, x3, x4, 0), Sum(x1, x2, x3, 0)}
            opposite == ((x1 + x3) * (c + s) + (x2 - x4) * (s - c)) % Q = 0
        IN  /\ c = s /\ (key.client = Err \/ key.server = Err) => identity
            /\ key.client # None /\ key.server # None /\ key.client # Err /\ key.server # Err =>
                  IF c = s THEN key.client = key.server
                  ELSE key.client = key.server => Sum(x1, x2, x3, x4) = 0 \/ opposite
=============================================================================
