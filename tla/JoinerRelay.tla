----------------------------- MODULE JoinerRelay -----------------------------
(***************************************************************************)
(* The commissioner's side of joining (client/driver/relay.rs and the      *)
(* joiner handler commands of client/driver/mod.rs) with one joiner: its   *)
(* entry in joiner_sessions, created by the first relayed datagram, swept  *)
(* when it is too old, dropped when it fails, when the handler is removed  *)
(* and when the commissioner's own session ends.  The joiner (external) is *)
(* a DTLS client that may start over from another port and joiner router,  *)
(* and sends JOIN_FIN.req once connected; the relay path loses, repeats    *)
(* and reorders datagrams.                                                 *)
(***************************************************************************)
EXTENDS DtlsClient, JoinerSession

CONSTANTS
    Handlers,       \* the joiner handlers an application may install
    MaxLate         \* bound on the joiner's timers with nothing under way

\* MaxFaults also bounds handler changes, sessions that grow too old, failed
\* sends, ends of the commissioner's session and new attempts of the joiner.
ASSUME RelayBounds == MaxLate \in Nat

\* An installed handler accepts or rejects; it never leaves a joiner undecided.
ASSUME HandlersAssumption == \A h \in Handlers : h.accepts \in BOOLEAN /\ h.accepts # None

VARIABLES
    handler,    \* Driver::joiner_handler
    session,    \* the joiner's entry in Driver::joiner_sessions
    open,       \* the commissioner's own session is open
    runs,       \* how many joiner sessions were created
    published,  \* history: the joiner events published
    asked,      \* history: the runs in which the handler was asked to decide
    relayed,    \* history: the JOIN_FIN.rsp messages sent, with the KEK or not
    linked,     \* history: the sessions that connected
    verdict,    \* what the joiner was told
    late        \* how many timers fired with nothing under way

commissioner == <<handler, session, open, runs, published, asked, relayed, linked>>
vars == <<cl, net, wire, faults, commissioner, verdict, late>>

\* StaticJoinerHandler::joiner_pskd: the joiner's own PSKd before the
\* wildcard.
JoinerPskd(h) == IF h.own # None THEN h.own ELSE h.wildcard

Init ==
    /\ NetworkInit
    /\ cl = ClientStart(1)
    /\ handler \in Handlers \cup {None}
    /\ session = None
    /\ open = TRUE
    /\ runs = 0
    /\ published = <<>>
    /\ asked = <<>>
    /\ relayed = {}
    /\ linked = {}
    /\ verdict = None
    /\ late = 0

\* Mutant of Live: nothing is swept.
Unswept == session

\* The entry after the sweep that every relayed datagram starts with.
Live == IF session # None /\ session.expired THEN None ELSE session

\* The session that takes a datagram: the live entry, or a new one if the
\* handler knows the joiner.
Takes(route) ==
    IF handler = None THEN None
    ELSE IF Live # None THEN Live
    ELSE IF JoinerPskd(handler) = None THEN None
    ELSE NewSession(runs + 1, JoinerPskd(handler), route)

RunOf(s) == <<"session", s.run>>

\* Transmissions reach the joiner only at the port and router it still uses.
Relay(taken, s, sent) ==
    /\ net' = (net \ taken) \cup
                (IF s.route = cl.me
                 THEN {Datagram("client", RunOf(s), t.records) : t \in sent} ELSE {})
    /\ wire' = wire \cup {<<RunOf(s), r>> : r \in UNION {{t.records[i] : i \in 1..Len(t.records)} : t \in sent}}
    /\ relayed' = relayed \cup
                    {[run |-> s.run, accepted |-> Body(t.records[1].message), kek |-> t.kek] :
                        t \in {u \in sent : u.records[1].content = "data"}}

NotTaken(taken) ==
    /\ session' = Live
    /\ net' = net \ taken
    /\ UNCHANGED <<wire, open, runs, published, asked, relayed, linked>>

\* handle_relay_rx.  Events are published before anything is sent, to the
\* port and router of the session's first datagram; a failure inside the
\* session only removes it; a send that fails, whichever it is, ends the
\* commissioner's session with the rest unsent.
RelayRx(d, again, failing) ==
    /\ open
    /\ d.to = "server"
    /\ d \in net
    /\ IF again \/ failing THEN Fault ELSE UNCHANGED faults
    /\ LET taken == IF again THEN {} ELSE {d}
           s == Takes(d.from[2])
           x == ReceiveRecords(s, d.records, handler.accepts)
       IN  IF s = None THEN ~failing /\ NotTaken(taken)
           ELSE /\ failing => ~x.stop /\ x.out # <<>>
                /\ runs' = s.run
                /\ asked' = asked \o [i \in 1..x.asked |-> s.run]
                /\ IF x.stop
                   THEN /\ session' = None
                        /\ net' = net \ taken
                        /\ UNCHANGED <<wire, open, published, relayed, linked>>
                   ELSE /\ session' = IF failing THEN None ELSE x.state
                        /\ open' = ~failing
                        /\ published' = published \o x.events
                        /\ \E n \in 0..Len(x.out) :
                              /\ failing <=> n < Len(x.out)
                              /\ Relay(taken, s, {x.out[i] : i \in 1..n})
                        /\ linked' = IF ~Established(s) /\ Established(x.state)
                                     THEN linked \cup {[key |-> x.state.key,
                                                        transcript |-> x.state.transcript]}
                                     ELSE linked
    /\ UNCHANGED <<cl, handler, verdict, late>>

\* Command::SetJoinerHandler: replacing keeps the sessions under way, removing
\* drops them.
SetJoinerHandler(h) ==
    /\ Fault
    /\ handler' = h
    /\ session' = IF h = None THEN None ELSE session
    /\ UNCHANGED <<cl, net, wire, open, runs, published, asked, relayed, linked, verdict, late>>

\* end_session.
EndSession ==
    /\ open
    /\ Fault
    /\ open' = FALSE
    /\ session' = None
    /\ UNCHANGED <<cl, net, wire, handler, runs, published, asked, relayed, linked, verdict, late>>

\* JOINER_SESSION_TIMEOUT passes for the session.
Age ==
    /\ session # None
    /\ ~session.expired
    /\ Fault
    /\ session' = [session EXCEPT !.expired = TRUE]
    /\ UNCHANGED <<cl, net, wire, handler, open, runs, published, asked, relayed, linked,
                   verdict, late>>

-----------------------------------------------------------------------------
(* The joiner, external to the repository. *)

JoinerConnects == Connect /\ UNCHANGED <<commissioner, verdict, late>>

\* A datagram for the joiner; a JOIN_FIN.rsp tells it the verdict.
JoinerReceives(again) ==
    /\ \E d \in net :
          /\ ClientReceives(d, again)
          /\ verdict' = IF /\ cl.phase = "Done"
                           /\ d.records[1].content = "data"
                           /\ Opens(d.records[1], cl.key)
                        THEN Body(d.records[1].message) ELSE verdict
    /\ UNCHANGED <<commissioner, late>>

JoinerTimeout ==
    /\ ClientTimer
    /\ \/ net # {} /\ Fault /\ UNCHANGED late
       \/ net = {} /\ late < MaxLate /\ late' = late + 1 /\ UNCHANGED faults
    /\ UNCHANGED <<commissioner, verdict>>

\* An application record, sent again until the verdict arrives.
JoinerSends(body) ==
    /\ cl.phase = "Done"
    /\ verdict = None
    /\ cl.next1 < MaxRecords
    /\ body = "JOIN_FIN.req" \/ cl.next1 = 1
    /\ cl' = [cl EXCEPT !.next1 = @ + 1]
    /\ Exchange({}, "server", ClientName(cl),
                <<<<Sealed(cl.next1, "data", cl.key, Message(body, 0, None))>>>>)
    /\ UNCHANGED <<faults, commissioner, verdict, late>>

\* The joiner gives up, or fails, and starts over; what was under way to its
\* old port is lost.
JoinerStartsOver ==
    /\ cl.phase # "Start"
    /\ verdict = None
    /\ Fault
    /\ cl' = ClientStart(cl.me + 1)
    /\ net' = {d \in net : d.to = "server"}
    /\ late' = 0
    /\ UNCHANGED <<wire, commissioner, verdict>>

\* The joiner fails and says so, under its key once it has one.
JoinerAlerts ==
    /\ cl.phase \in ClientWaiting \cup {"Done"}
    /\ Fault
    /\ cl' = [cl EXCEPT !.phase = "Failed"]
    /\ Exchange({}, "server", ClientName(cl),
                IF cl.phase = "Done" THEN <<<<Sealed(cl.next1, "alert", cl.key, None)>>>>
                ELSE <<<<FatalAlert(cl.next0)>>>>)
    /\ UNCHANGED <<commissioner, verdict, late>>

JoinerSplits == Split /\ UNCHANGED <<cl, commissioner, verdict, late>>
RelayLoses == Lose /\ UNCHANGED <<cl, commissioner, verdict, late>>

-----------------------------------------------------------------------------

RelayReceives(again, failing) ==
    /\ ~(again /\ failing)
    /\ \E d \in net : RelayRx(d, again, failing)

Next ==
    \/ \E again, failing \in BOOLEAN : RelayReceives(again, failing)
    \/ \E h \in Handlers \cup {None} : SetJoinerHandler(h)
    \/ EndSession
    \/ Age
    \/ JoinerConnects
    \/ \E again \in BOOLEAN : JoinerReceives(again)
    \/ JoinerTimeout
    \/ \E body \in {"JOIN_FIN.req", "other", "malformed"} : JoinerSends(body)
    \/ JoinerStartsOver
    \/ JoinerAlerts
    \/ JoinerSplits
    \/ RelayLoses

Spec == Init /\ [][Next]_vars

-----------------------------------------------------------------------------
(* Properties *)

\* What the application was told that its handler decided in a run.
Decisions(run) ==
    {published[i].accepted : i \in {j \in 1..Len(published) :
        published[j].run = run /\ published[j].kind = "Finalized"}}

\* Neither end ever seals two different records under one number, whatever is
\* repeated to it: the AEAD nonce of protect_aes_128_ccm_8_record is that
\* number.
RelayedNumbersFresh ==
    \A x, y \in wire :
        (x[1] = y[1] /\ x[2].epoch = 1 /\ y[2].epoch = 1 /\ x[2].seq = y[2].seq) => x = y

\* The application hears JoinerConnected at most once and then JoinerFinalized
\* at most once of a session, and its handler decides at most once, although
\* the joiner repeats its Finished and its JOIN_FIN.req until it is answered.
EventsInOrder ==
    /\ \A j \in 1..Len(published) :
          LET earlier == {published[i].kind : i \in {k \in 1..(j - 1) :
                                published[k].run = published[j].run}}
          IN  earlier = IF published[j].kind = "Connected" THEN {} ELSE {"Connected"}
    /\ \A i, j \in 1..Len(asked) : asked[i] = asked[j] => i = j

\* The Joiner Router KEK goes out exactly with the answers that accept, all
\* answers of a session agree, and each was reported to the application as
\* the decision before it was sent: replacing the handler does not change a
\* decision that was made.
KekOnlyIfAccepted ==
    \A a \in relayed : a.kek = a.accepted /\ Decisions(a.run) = {a.accepted}

\* What the joiner is told is what the application was told of it, in a session
\* that both ends derived from the same PSKd, randoms and transcript.
JoinerToldByItsSession ==
    verdict # None =>
        /\ \E l \in linked : l.key = cl.key /\ l.transcript = cl.transcript
        /\ Decisions(cl.key[3]) = {verdict}

\* Sessions do not outlive what they need: none without a handler, none after
\* the commissioner's own session ended, and a session that is too old sends
\* nothing more.
SessionsRetired ==
    [][/\ (handler' = None \/ ~open') => session' = None
       /\ session # None /\ session.expired =>
            \A x \in wire' \ wire : x[1] # RunOf(session)]_vars
=============================================================================
