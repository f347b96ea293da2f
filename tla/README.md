# A TLA+ model of meshcop-rs

meshcop-rs is a Thread commissioner: a library that opens a DTLS session with a
border agent, petitions for the commissioner role, keeps the session alive,
exchanges CoAP requests over it, and commissions joiners relayed through it.
This directory holds TLA+ models of its protocol state machines, TLC
configurations that check them on small instances, and TLAPS proofs for
instances of every size. Paths below are relative to `src/crates/`.

## The system

| Part | Where | State | Hard behaviour |
|---|---|---|---|
| Session driver | `meshcop/src/commissioner/client/driver/{mod,exchange,link}.rs` | status, link, exchanges in flight, request queue, keep-alive timer | one task serves timers, datagrams and commands; every handler can end the session half-way |
| Handles | `.../client/{mod,requests}.rs` | a reply channel per call | calls from many tasks, dropped futures, dropped handles |
| Routing | `.../driver/incoming.rs` | none of its own | answers, acknowledgements, notifications and relayed messages in any order |
| Answered messages | `.../driver/duplicates.rs` | up to 64 replies for 247 s | retransmissions, reused message IDs, reopened sessions |
| Prefix cache | `.../client/{mod,requests}.rs` | prefix and generation | a fetch without the lock races invalidation |
| Dataset writes | `.../client/datasets.rs` | write lock, steering data at the leader | read-modify-write over a network that delays |
| Joiner sessions | `meshcop/src/commissioner/joiner.rs`, `.../driver/relay.rs` | a DTLS server session per joiner | expiry, repeated flights, replaced handlers |
| Events | `meshcop/src/commissioner/events.rs` | bounded broadcast | lagging subscribers |
| DTLS record layer | `meshcop-dtls/src/{driver,replay,record}.rs` | sequence counter, 64-record window, unread records | repeated, reordered, damaged datagrams of several records |
| DTLS handshakes | `meshcop-dtls/src/{client_driver,server_driver,thread_handshake,thread_server_handshake,hello,flight}.rs` | phase, flight, retransmission budget | lost and repeated flights |
| Diagnostics collector | `meshcop-netdiag/src/collect.rs` | nodes visited, queries to retry | queries split when a node cannot answer |
| Codecs | `meshcop/src/{tlv,dataset}.rs`, `meshcop/src/meshcop/`, `meshcop-dtls/src/handshake.rs` | a dataset, a message being reassembled | lengths at a boundary, short input, overlapping fragments |
| Key exchange | `meshcop-dtls/src/ecjpake/` | four scalars and the peer's points | agreement exactly for equal passwords |
| Command line | `ot-commissioner-cli/src/cli/` | session, joiners enabled | long command sequences |

A handle sends a `Command` to the driver and waits on a one-shot channel. The
driver turns it into an exchange on the link, which is a DTLS session. What
arrives on the link is an answer, an acknowledgement, or something unsolicited;
confirmable messages are answered through the record of answered messages, and
`DatasetChanged` empties the prefix cache that handles fill.

`PROJECT.json` lists every part with its status, and the hazards of the code
line by line with the properties that watch over them.

## Modules

### SessionDriver

The driver task together with its handles. One action stands for one handler,
run to its end, with everything it calls: `ExchangeCommand`, `WithdrawCommand`,
`PetitionCommand`, `KeepAliveCommand`, `ResignCommand` and `HandlesDropped` for
`handle_command`; `ReceiveAnswer`, `ReceiveAck`, `AnswerAckFails`,
`TransportFails` and `PeerCloses` for `handle_datagram` and `receive_failed`;
`Expire`, `Retransmit` and `KeepAliveTimer` for `run_timers`; `Stop` and
`TaskStops` for the two ways the task ends; `Call`, `StopWaiting` and
`DropHandles` for the handles. The guards `TimerDue`, `CanReceive` and
`CanTakeCommand` are the `biased` select of `next_wake`.

What the code does in several functions but every handler needs is defined once:
`EndSession` (`end_session` with `fail_all`), `SendQueued` (the loop of
`send_queued` over `start`, `fail_send` and `complete`), `StartControl`, and
`Complete` (the outcome of an exchange by its kind).

Abstractions:

- `in_flight` is a set, since the order of the vector only decides which of
  several simultaneous timeouts is served first. `run_timers` visits one due
  exchange per step; nothing else the driver does is enabled meanwhile.
- A timer holds the ticks that remain. `Tick` is never blocked, so the driver
  may be late by any amount; the schedule run has a punctual variant.
- A request is reduced to what `start` does with it: confirmable, not
  confirmable, without an answer, or impossible to encode. An answer is
  reduced to accept, reject, pending or malformed.
- Whether the commissioner ID can be encoded, a handshake succeeds, or a send
  fails is a free choice at each point where the code looks.
- Each call is made once. Unsolicited messages that leave the session alone are
  left out, except that replying to them can fail (`TransportFails`).
- Installing a joiner handler touches only joiner sessions and is not here.

### AnsweredMessages

The record of answered messages (`Remember`, `ForgetExpired`, `Found`) and the
routing around it: `AnswerAgain` for a remembered message, `Act` for a new one,
`Drop` for one that cannot be routed, `ReplyFails` when the link breaks,
`Reopen` for `ensure_open`. The senders are external: a copy of a message may
arrive any number of times for `Lifetime` after it was first sent, and an ID may
be used again as soon as that time has passed (RFC 7252, section 4.4), or by the
border agent in a new DTLS session.
Non-confirmable messages are not remembered by the code and not modelled.

### PrefixCache, Subscription, Handles

`PrefixCache` has the two critical sections of `require_mesh_local_prefix`
(`Lookup`, `Store`) with the fetch between them, against `Invalidate`. Dataset
changes and their notifications are external: a notification arrives at any
time after the change, possibly repeatedly, but does arrive. The generation is a
natural number; the code's wraps at 2^64.

`Subscription` is one `Events` stream over the broadcast channel: `Publish`,
`NextEvent` (an event, a lag or the end) and `CloseChannel`.

`Handles` composes both with the typed operations of cloned handles. A call goes
through stages that are the awaits of its operation: queue for
`commissioner_dataset_writes` (`Acquire`), read the dataset (`Submit`,
`ReadDone`), check the session (`CheckSession`), find the leader's or the
backbone router's address (`UseCached`, `Fetch`, `UseFetched`), send and wait
(`Submit`, `WriteDone`). `Fails` is an error or a dropped future at any of them:
the lock guard goes with it, a request may stay behind. An operation is
described by what it does before its request leaves (lock, session, destination)
and whether it waits, read off each method. The leader (`Execute`) is external;
it takes a write at most once, possibly after the caller gave it up. Steering
data is its length and its bits; the bits of a joiner are a constant.

### ReplayWindow, RecordLayer, RecordChannel

`ReplayWindow` is the window as a value with `HasSeen` and `MarkSeen`, its
bitmap a set of bit positions. `RecordLayer` is an established session seen from
the receiver: `SendDatagram` (the peer's `protect_record`), `ReceiveDatagram`,
`OpenRecord` and `DiscardRecords` (`open_next_record`, with and without a usable
record). Every datagram sent may arrive at any time, any number of times, or
never, with any of its records damaged. A client has opened the peer's Finished
through the same window and a server has not, so both initial windows exist. An
alert that authenticates ends the session, as the code above drops it then.
`RecordChannel` is what the session promises: each record the peer protected is
delivered at most once, nothing else is, and nothing follows an alert.

### DtlsMessages, DtlsNetwork, DtlsClient, DtlsServer, DtlsHandshake, KeyAgreement

`DtlsMessages` has the messages, records and derived values, symbolically: a
random value is the run that drew it, and a MAC, cookie or key is the tuple of
what it is computed from, so two are equal exactly when their inputs are. A
second round of EC-JPAKE that was made for other first rounds does not verify
(`Proves`) and ends the handshake before a key is derived.
`DtlsNetwork` is the UDP path; `MaxFaults` bounds how often it loses, repeats or
overtakes a datagram. `DtlsClient` is `connect` with its three waits (cookie,
server flight, server Finished), each with its timer and retransmission budget;
`DtlsServer` is `accept`, from the stateless cookie exchange to the session that
repeats its Finished. One action handles one datagram to its end, every record
in it included, and ends the handshake where the code's `?` does.

`DtlsHandshake` connects them, with timers that may fire while an answer is on
its way (`MaxLate` times), deadlines that may pass at any moment, application
data, a server that is started again, and a peer that puts the records of a
flight into datagrams of their own (`PeerSplits`; OpenThread does).
`KeyAgreement` is the abstract specification: the server opens sessions only
with a client that has its secret, and a client only ends up in a session that
the server has opened, with the same keys and transcript.

### JoinerSession, JoinerRelay

`JoinerSession` is `JoinerSession::receive` of the commissioner: a DTLS server
fed with relayed datagrams that returns what to send and what to report, and
whose error discards both. `JoinerRelay` is the driver around it: the session
table (`RelayReceives`: sweep, look up, create, receive, send, report, drop),
`SetJoinerHandler`, the end of the commissioner's session, and ageing. Any of the
transmissions may fail, which leaves it and those after it unsent. The
joiner is external and built from `DtlsClient`; it may start over. One joiner
is enough for the table, whose entries only meet in the sweep.

### Topology, Collector

`Topology` is the pure part of `meshcop-netdiag`: RLOC16s, what an answer adds to
a node, the links between nodes, and the drawn neighbours. `Collector` is the
walk, one request per `Step`: discovery of the leader, the primer that tells a
silent node from one that refuses a batch, the splitting of a refused batch,
routers, children, and the walk to a single node. A TLV has a size, a response a
capacity; a device that cannot fit a batch stays silent, refuses it, or cuts the
response between two TLVs. The dataset that the walk starts from is not modelled;
reading it at the end may fail, and the finished walk with it (`SnapshotMade`).

### Bytes, Tlv, Dataset, Coap, NetDiag, Commands, Reassembly, EcJpake, Codecs

The codecs as functions on byte sequences: TLVs with their extended lengths,
typed dataset values and editing, CoAP messages with option deltas, the
diagnostic decoders, every request builder and every parser, handshake fragments
and `HandshakeReassembler`. That type is public API which only tests and the fuzz
target use: the handshake drivers take unfragmented messages. `EcJpake` is the
exchange with its Schnorr proofs over a group of prime order `Q` whose points are
their discrete logarithms; a key is the X coordinate of a point, which a point
shares with its opposite. A point is read in its uncompressed and its compressed
encoding and written in the former, so no run reads a compressed one.
`Codecs` puts them through four stories, one per behaviour: edit, write and
read a dataset; encode a message, lose any tail of it, decode and parse it;
offer fragments of several messages in any order and cut; run the exchange.
Encoders for what only peers send are the references that the decoders are
checked against.

### Proof modules

| Module | Extends | About |
|---|---|---|
| `SessionDriverProofs` | `SessionDriver`, `AnsweredMessages` | the driver's own state, calls and their outcomes, the retransmission schedule, repeated messages |
| `DeliveryProofs` | `RecordLayer`, `Handles` | what is delivered, cached and written once |
| `DtlsClientProofs` | `DtlsClient` | the client and the ClientHellos |
| `DtlsHandshakeProofs` | `DtlsHandshake`, `DtlsClientProofs` | the server, and both together |
| `JoinerSessionProofs` | `JoinerRelay`, `DtlsClientProofs` | one joiner session and one relayed datagram |
| `JoinerRelayProofs` | `JoinerSessionProofs` | the relay, the joiner and the application |
| `TopologyProofs` | `Collector` | RLOC16s, batches, records, the graph, asking one device |
| `CollectorProofs` | `TopologyProofs` | the walk, and the graph at its end |

## Runs

| Run | Instance | Checks |
|---|---|---|
| `session` | 3 calls of every kind but `non` | `TypeOK`, `NoCallerForgotten`, `OneExchangePerKind`, `SlotNeverIdle`, `StatusMatchesExchanges`, `KeepAliveNeverForgotten`, `LossPublishedOnce`, `AnsweredOnce`, `NothingNewWhileResigning` |
| `session_live` | 2 calls, with fairness | `EveryCallAnswered`, `DroppedHandlesStopDriver` |
| `session_schedule` | 2 calls, punctual, the code's timer values in seconds | `RetriesFitDeadline` |
| `session_slots` | 3 calls | `AtMostTwoOutstanding`: violated |
| `session_loss` | 2 calls | `OutstandingCallsHearOfLoss`: violated |
| `answered` | 3 senders, room for 2 replies, 2 uses of an ID | `RepliesBelong`, `ActedOnce` |
| `records` | window of 3, 5 records, 2 per datagram, with fairness | `RecordTypeOK`, `WindowExact`, `ImplementsChannel`, `FreshRecordsDelivered` |
| `handshake` | 2 faults, 2 early timers, right and wrong secret, 2 accepts, with fairness | `FreshRecordNumbers`, `TranscriptStartsWithLastHello`, `ImplementsAgreement`, `HandshakeCompletes` |
| `joiners` | 1 joiner, 4 handlers, 2 faults | `RelayedNumbersFresh`, `EventsInOrder`, `KekOnlyIfAccepted`, `JoinerToldByItsSession`, `SessionsRetired` |
| `handles` | 2 handles, 2 joiners, 2 calls, 1 dataset change, a channel of 1 event, with fairness | `CacheFresh`, `JoinersKept`, `HeardOfFreshPrefix`, `EventsAccounted`, `CallsEnd` |
| `walk` | 3 routers, 2 children, 4 faults, with fairness | `SplittingLosesNothing`, `GraphShowsTheMesh`, `LostSessionStopsWalk`, `WalkEnds` |
| `codecs` | boundary values, every tail of 31 messages, fragments of 4 messages, a group of 5 | `DatasetReadsBack`, `ShortIsNeverMisread`, `ReassembledWhole`, `KeysMatchPasswords` |

Why the bounds are enough.

- Session. Three calls let one request be in flight, one be queued behind it and
  a third (a petition, keep-alive or resignation) act on the session, and a
  fourth token covers the driver's own keep-alive. The timers keep the order of
  the real ones, retry before deadline before keep-alive interval, and the
  proofs cover all others.
- Answered messages. Two replies for three senders make the record overflow; a
  lifetime of three ticks separates "just answered", "about to expire" and
  "expired", and messages that are answered at once, late and very late.
- Records. A window of three records in a sequence of five has numbers inside,
  at the edge of and behind the window; the proofs cover every width.
- Handshake. Two faults and two early timers suffice for a retransmission to
  cross the answer to the original, for a repeated flight to meet a later
  phase, and for a budget of two to run out. Three of each, with a budget of
  three, is an instance of 4.5 million states that takes a quarter of an hour
  and holds as well.
- Joiners. The four handlers accept, reject, give another PSKd and give none;
  any may replace any other at any step. Three application records allow a
  repeated JOIN_FIN and one that is something else.
- Handles. Two calls are the fewest that can race; `enable_joiner`, a write
  that replaces everything, a multicast command and a diagnostic request cover
  each combination of lock, session check, address and waiting that matters to
  a property. The proofs cover all operations and any number of calls.
- Walk. A router and a child that answer, a router and a child that do not, and
  TLVs of different sizes against a capacity: batches are split down to single
  TLVs, and four lost answers exhaust the primer.
- Codecs. Values lie at each boundary of a length or bit field: 254, 255 and 256
  bytes of TLV value; 12, 13, 268 and 269 bytes of option; the largest timestamp.
  With five group elements every choice of scalars, passwords and proof nonces
  is tried, degenerate ones included.

Deadlock is not checked in runs whose system may stop: a driver that has ended,
a session closed by an alert, a bounded number of messages, calls or changes.

### Fairness

`session_live` assumes that time passes, that the task is polled (due timers are
served, a closed session stops) and that commands are served if they can be
again and again. The last is strong fairness because a due timer takes
precedence over a command, but timers re-arm later than they are served. It also
assumes that datagrams pause now and then: `next_wake` reads a datagram before
a command, so an endless stream of them would hold up commands in the code as
well. Nothing is assumed of the border agent; it may never answer. `records`
assumes that the caller keeps asking for the next record.

`handshake` assumes that the client is polled, that a datagram under way which is
not lost arrives, and that a timer fires when nothing is left to arrive. The
conditions are written out as `[]<>`-formulas with the predicate that enables
each action; they are weak fairness. The network's faults are bounded, so a
retransmission eventually gets through, and `HandshakeCompletes` is about runs
in which no deadline passes.

`handles` assumes that a caller at the head of the lock's queue is polled, and
that a call which waits for something else than the lock ends: the driver
answers or fails every request, which is `EveryCallAnswered` of the session
driver. That no caller waits for ever for the lock is then a consequence.
`walk` assumes that the next request is made, as `collect` is one sequential
task.

### What the violated properties show

- `AtMostTwoOutstanding`. The design document gives all session control one
  reserved slot (`docs/design/session-driver.md:123-126`). The code refuses a
  second keep-alive and a second resignation but lets a resignation start
  beside a keep-alive, so with a request in flight three exchanges are
  outstanding.
- `OutstandingCallsHearOfLoss`. A confirmable response is acknowledged after its
  exchange left `in_flight` and before its caller is told. If that send fails,
  the session ends and the caller sees `SessionClosed`, not `SessionLost` as
  `error.rs:59` and `session-driver.md:324` say. The response itself is lost.

Not runs, as each would restate one line of code:

- The top-level README (lines 165-167) says requests outstanding when the
  session ends, by `resign()` too, fail with `SessionLost`, while after a
  resignation `end_session` gives them `SessionClosed`.
- `collect.rs:10-11` says a TLV that a node does not answer alone is "recorded as
  unsupported and skipped on every later node"; the code skips it for that node
  only. The comment at `collect.rs:356-363` says `InvalidState` only ever signals
  a refused batch; a session that ends between the status check and the call
  reads as silence too. `LostSessionStopsWalk` shows that this happens once.
- `joiner disable` of the command line has the comment "Steering is rewritten
  from the remaining enabled joiners." (`interpreter/joiner.rs`); the code
  reinstalls the handler and leaves the leader's steering data alone. And
  `joiner enable` after `joiner enableall` clears the one-byte filter, so that
  only the new joiner is admitted, although the PSKds of the others stay installed.

### Limits that the properties state

Some properties hold only up to a limit of the code, which they spell out:

- `RepliesBelong` excepts an ID that is used again after a late answer. The code
  remembers a reply for 247 s from the answer (`duplicates.rs:62` and `78`), while
  the sender counts 247 s from its first transmission. If the first copy took
  `d` to arrive, a new message under the ID that arrives in less than `d` finds
  the old reply still remembered: it is taken for a copy, answered with that
  reply, and lost. `d` is at most the time a message may stay under way. The
  exception is exact: with any smaller one TLC finds a violation.
- `JoinersKept` excepts a write that its caller gave up and that reaches the
  leader later; it may undo a joiner enabled meanwhile.
- `SplittingLosesNothing` excepts a response cut between two TLVs: it decodes
  without the rest, which is not asked for again.
- `ShortIsNeverMisread` allows a petition response cut after its state, which
  reads as accepted without a session ID, and an energy report without its
  TLVs, which reads as an empty one.
- `ReassembledWhole` allows fragments of two senders' messages with the same
  type, number and length to mix where they do not overlap.
- `JoinerToldByItsSession` is about safety: a joiner that starts over from another
  port or router is not served before its old session expires.

## Proofs

Proved for every number of calls, tokens, callers, joiners, messages and events,
every mesh, all timer values and budgets that satisfy the named assumptions, and
every window width and channel capacity:

- `SessionDriverProofs`: `TypeOK`, `StatusMatchesExchanges`,
  `OneExchangePerKind`, `KeepAliveNeverForgotten`, `SlotNeverIdle`,
  `LossPublishedOnce`, `NoCallerForgotten`, `AnsweredOnce`,
  `NothingNewWhileResigning`, `RetriesFitDeadline`; `RepliesBelong`, `ActedOnce`.
- `DeliveryProofs`: `RecordTypeOK`, `WindowExact`, and that the record layer
  implements `RecordChannel`; `JoinersKept`,
  `CacheFresh`, `EventsAccounted`, `HeardOfFreshPrefix`.
- `DtlsHandshakeProofs`: `FreshRecordNumbers`, `TranscriptStartsWithLastHello`,
  and that the two handshake drivers implement `KeyAgreement`.
- `JoinerRelayProofs`: `RelayedNumbersFresh`, `EventsInOrder`,
  `KekOnlyIfAccepted`, `JoinerToldByItsSession`, `SessionsRetired`.
- `CollectorProofs`: `SplittingLosesNothing`, `GraphShowsTheMesh`,
  `LostSessionStopsWalk`.

### The session driver

Every handler ends by ending the session,
by letting it continue with given values, or by leaving it alone. `Core` states
what values a session may continue with (`Sound`), so each handler's proof is
that it passes on sound ones. `Sound` needs one conjunct that is no property of
its own: a keep-alive timer armed while a resignation is outstanding runs out
after the resignation's deadline. Without it, "no keep-alive while resigning" is
not inductive, because an earlier keep-alive's answer may arm the timer; it
rests on `ExchangeTimeout < KeepAliveInterval`, which the bounds of `config.rs`
(30 s to 45 s) and the 12 s deadline guarantee.

For the calls, `CallsInv` adds that each call is in at most one place (the
channel, the queue, or one exchange) and is unanswered while it is in one. Every
driver step is first shown to satisfy `Handled(T, W)`: of the calls it held and
those `T` it just took, each is still held, answered, or withdrawn (`W`), and no
other reply changes. Two lemmas then turn `Handled` into `CallsInv'`, one for
steps that take a command and one for the others.

`RetriesFitDeadline` is about a punctual driver. Its invariant `Timely` relates
the three timers of an exchange: the time to the next retry, plus what the
remaining retries will wait, is below the time to the deadline. What `n` doubled
waits add up to is a function that the proof takes as given (`Schedule`) and
`ScheduleAssumption` shows to exist for the constants; the code's 2-3 s, two
retries and 12 s satisfy it, and the runs evaluate it.

### Records, answered messages, handles

For the record layer, `Describes` says bit `b` of the window is set exactly when
the record `b` behind the newest one was returned, and `Issued` that records
which authenticate carry numbers the peer used. For the cache, a fetch answered
with an outdated prefix that would still be stored has an invalidation ahead.

`AnsweredInv` has two halves that pull against each other. An entry that can
still be found answers the latest message under its ID, or one first sent at least
a lifetime before it (`LiveEntriesDated`), so nothing may be kept too long; a message that was acted on and can still
arrive has an entry no older than itself (`ActedRemembered`), so nothing may be
forgotten too early. Between them stands `LostForgotten`: exactly the border
agent's messages die with a DTLS session, and none of their entries survives
into the next. The lemmas on `ForgetExpired` and `Remember` say what each does to
the set of entries.

For the handles, `WritesInv` follows a joiner from the read to the write. A call
past the queue holds the lock (`LockHeld`), so there is one such call
(`OneHolder`), and a request that somebody still waits for is that call's
(`RequestsMatch`); this needs calls and requests to be numbered apart
(`Numbered`). `Careful` then says, as long as no abandoned write has arrived,
that what the holder read and what it is about to write keeps every joiner owed,
and that a write answered but not yet reported is what the leader still has. The
last conjunct is what makes the invariant inductive: between the leader's answer
and the caller's return nothing else may write. Every handle step is also a step
of `PrefixCache` (`CacheSteps`), which carries the cache's invariant over.
`NothingOlder` says that neither the cache nor a fetch that would be stored is
older than any change announced, published or about to be: the invalidation
comes before the event and outdates the fetches answered before it.

### Handshakes

`HandshakeInv` speaks of the client, the server and the records each has put on
the wire, the latter taken sender by sender and accept by accept. For the
client (`ClientInv`): every record it sent has a number below its counter, no two
different ones share a number, and its flight, transcript and keys fit its
phase. `HelloInv` follows the cookies: a ClientHello has none or that of some
accept, never that of an earlier accept than a ClientHello before it, and the
newest one is the client's current one. For the server (`ServerInv`, `Served`): a Finished on the
wire belongs to a session in `accepted`, and its key is made from the server's
own secret. Refinement of `KeyAgreement` follows: a client that opens a Finished
has the key of an accepted session, as keys are equal only if their inputs are.

### Joiner sessions

`SessionInv` is the same argument for one joiner session, with what it has told
the application added: which events were published in which phase, and that a
decision, once made, is the one in every JOIN_FIN answer it sends. A relayed
datagram is a sequence of records and the session handles them one after the
other, so `JoinerSessionProofs` shows that one record keeps the invariant and
concludes by induction along the datagram, with an error that discards the whole
result. `RelayInv` puts the table entry, the handler, the joiner (`JoinerInv`) and
the histories together. It speaks of the records of every run (`RunsSent`), not
only of the live session: an answer of a session that has been retired since may
still reach the joiner.

### The walk

`WalkInv` has five parts beside types. `DeviceInv`: what the device being asked
has answered is what it has. `LossInv`: each TLV it still owes is in a batch to
come, fits no response, or was lost, and there are no more of the last than
answers were lost; the primer's attempts are counted the same way. `NodesInv`
keeps these promises for the finished records, `MeshInv` says where records come
from, and `FoundInv` what a walk without losses has found. Splitting preserves
`LossInv` because the halves of a batch hold what the batch held; a batch of one
TLV is only given up for one of the three reasons. For the graph, a record that
tells of its routes tells exactly what the mesh has (`Tells`), both ends of a
link agree up to direction, and a link's view is determined by either end.

### Assumptions

They are those of the modules, evaluated in the runs: bounds are natural numbers,
capacities, lifetimes and widths are not zero, joiners differ from `None`,
`Operations` are operations of the API, and the session's timers are ordered as
`config.rs` orders them. Beyond these:

- `CookieAssumption`, `HandlersAssumption`: a cookie is told from no cookie, and
  an installed handler accepts or rejects.
- `RlocAssumption`, `MeshAssumption`: RLOC16s have 16 bits and child IDs 10, and
  every router has one Route64 entry per router, on which both ends of a link
  agree. A mesh whose tables are changing during the walk is outside.
- `SizesAssumption`: the MAC address, Route64 and the child table each fit a
  response.

### Only model-checked

Liveness (`EveryCallAnswered`, `DroppedHandlesStopDriver`,
`FreshRecordsDelivered`, `HandshakeCompletes`, `CallsEnd`, `WalkEnds`) is outside
the prover's reach. So are the codecs and the key exchange (`DatasetReadsBack`,
`ShortIsNeverMisread`, `ReassembledWhole`, `KeysMatchPasswords`): their decoders
are recursive operators, which tlapm cannot translate for its SMT solver, and
the last also needs arithmetic modulo a prime.

Where the proofs need induction (the records of a datagram, the waits of a
schedule, the remembered replies, the children in their order) they use a set of
natural numbers and its least element, which the library's theorem on
well-founded orders provides; the library's own induction rules take an operator
as a parameter, which the installed provers cannot instantiate.

## Not modelled

- The command-line interpreter and the diagnostics program: they run one command
  after the other over the operations above, and parse and print.
- Matching an answer to its exchange by route, token and message ID: the session
  driver's model starts from "the answer of this exchange".
- Notifications the border agent sends while no DTLS session is open: the cache
  then keeps its prefix until the next one. `PrefixCache` assumes that every
  notification arrives.
- Several joiners at once: sessions are kept by joiner ID and share nothing but
  the sweep.
- Wrap-around of message IDs, of the 48-bit record number and of the cache
  generation.
- The arithmetic of P-256, CCM, the key schedule and password hashing, and the
  validity of UTF-8: the tests' vectors cover them.
- Report formatting, the embedded demonstration, the fuzz targets and the test
  harness.
