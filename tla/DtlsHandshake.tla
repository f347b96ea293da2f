---------------------------- MODULE DtlsHandshake ----------------------------
(***************************************************************************)
(* A DTLS client and a DTLS server of this repository connected by a       *)
(* network that loses, repeats and reorders datagrams, with timers that    *)
(* may fire while an answer is under way, deadlines that may end either    *)
(* side at any moment, and a server that may be started again.             *)
(***************************************************************************)
EXTENDS DtlsClient, DtlsServer

CONSTANT MaxLate    \* bound on each side's timers that fire with nothing under way

ASSUME LateAssumption == MaxLate \in Nat

\* A ClientHello without a cookie is told from one that carries a cookie.
ASSUME CookieAssumption == \A run \in 1..MaxAccepts : Cookie(run, 1) # None

VARIABLES
    late,       \* how many timers of each side fired with nothing under way
    accepted    \* history: the sessions the server has opened

vars == <<cl, sv, net, wire, faults, late, accepted>>

Init ==
    /\ NetworkInit
    /\ cl = ClientStart(1)
    /\ \E secret \in ServerSecrets : sv = ServerStart(1, secret)
    /\ late = [client |-> 0, server |-> 0]
    /\ accepted = {}

TimerNeeded(side) == net = {} /\ late[side] < MaxLate

\* A timer may fire while an answer is under way, or to repair a loss.
TimerFires(side) ==
    \/ net # {} /\ Fault /\ UNCHANGED late
    \/ TimerNeeded(side) /\ late' = [late EXCEPT ![side] = @ + 1] /\ UNCHANGED faults

SessionOf(s) == [key |-> s.key, transcript |-> s.transcript]

Accepts ==
    accepted' = IF sv.phase # "Done" /\ sv'.phase = "Done"
                THEN accepted \cup {SessionOf(sv')} ELSE accepted

ClientConnects == Connect /\ UNCHANGED <<sv, late, accepted>>
DeliverToClient(again) ==
    /\ \E d \in net : ClientReceives(d, again)
    /\ UNCHANGED <<sv, late, accepted>>
DeliverToServer(again) ==
    /\ \E d \in net : ServerReceives(d, again)
    /\ Accepts
    /\ UNCHANGED <<cl, late>>
ClientTimeout == ClientTimer /\ TimerFires("client") /\ UNCHANGED <<sv, accepted>>
ServerTimeout == ServerTimer /\ TimerFires("server") /\ UNCHANGED <<cl, accepted>>
ClientGivesUp == ClientDeadline /\ UNCHANGED <<sv, late, accepted>>
ServerGivesUp == ServerDeadline /\ UNCHANGED <<cl, late, accepted>>
ServerRestarts == AcceptAgain /\ UNCHANGED <<cl, late, accepted>>
ClientTalks == ClientSends /\ UNCHANGED <<sv, late, accepted>>
ServerTalks == ServerSends /\ UNCHANGED <<cl, late, accepted>>
ServerListensAgain == ReceiveAgain /\ UNCHANGED <<cl, late, accepted>>
PeerSplits == Split /\ UNCHANGED <<cl, sv, late, accepted>>
NetworkLoses == Lose /\ UNCHANGED <<cl, sv, late, accepted>>

Next ==
    \/ ClientConnects
    \/ \E again \in BOOLEAN : DeliverToClient(again)
    \/ \E again \in BOOLEAN : DeliverToServer(again)
    \/ ClientTimeout
    \/ ServerTimeout
    \/ ClientGivesUp
    \/ ServerGivesUp
    \/ ServerRestarts
    \/ ClientTalks
    \/ ServerTalks
    \/ ServerListensAgain
    \/ PeerSplits
    \/ NetworkLoses

Spec == Init /\ [][Next]_vars

UnderWayTo(side) == \E d \in net : d.to = side

\* The network delivers what it does not lose, the executor polls the driver,
\* and a timer that nothing forestalls fires: weak fairness of five actions,
\* each spelled out with the predicate that enables it.
FairSpec ==
    /\ Spec
    /\ []<>(cl.phase # "Start") \/ []<><<ClientConnects>>_vars
    /\ []<>(~UnderWayTo("client")) \/ []<><<DeliverToClient(FALSE)>>_vars
    /\ []<>(~UnderWayTo("server")) \/ []<><<DeliverToServer(FALSE)>>_vars
    /\ []<>(~TimerNeeded("client") \/ cl.phase \notin ClientWaiting) \/ []<><<ClientTimeout>>_vars
    /\ []<>(~TimerNeeded("server") \/ sv.phase # "ClientFinished") \/ []<><<ServerTimeout>>_vars

-----------------------------------------------------------------------------

\* No two different records are ever sent under the same epoch and sequence
\* number by the same side: for protected records a repetition would reuse an
\* AEAD nonce, for plaintext ones a receiver that filters replays would drop
\* the retransmission (renumber_epoch_zero_flight, build_*_finished_flight).
FreshRecordNumbers ==
    \A x, y \in wire :
        (x[1] = y[1] /\ x[2].epoch = y[2].epoch /\ x[2].seq = y[2].seq) => x[2] = y[2]

\* Once a ServerHello has bound the client to a cookie exchange, its
\* transcript holds the ClientHello that it last sent, the one the server
\* answered: a reordered HelloVerifyRequest does not change it.
TranscriptStartsWithLastHello ==
    cl.recorded =>
        /\ cl.transcript[1] = cl.hello
        /\ cl.hello.seq = cl.lastHello
        /\ cl.nextMessage = cl.lastHello + 1

Agreement == INSTANCE KeyAgreement WITH
    NoSession <- None,
    matching <- (sv.secret = ClientSecret),
    opened <- accepted,
    session <- IF cl.phase = "Done" THEN SessionOf(cl) ELSE None

\* Whatever the network does, the two drivers implement key agreement.
ImplementsAgreement == Agreement!Spec

\* With the same secret, and unless a deadline passes or accept is called
\* again, both sides finish: lost, repeated and reordered datagrams and
\* timers that fire early neither stall the handshake nor make it fail.
HandshakeCompletes ==
    [](/\ sv.secret = ClientSecret
       /\ "TimedOut" \notin {cl.phase, sv.phase}
       /\ sv.run = 1)
        => <>(cl.phase = "Done" /\ sv.phase = "Done")
=============================================================================
