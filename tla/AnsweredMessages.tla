-------------------------- MODULE AnsweredMessages --------------------------
(***************************************************************************)
(* Confirmable messages from the border agent and from devices on the mesh *)
(* (meshcop/src/commissioner/client/driver/duplicates.rs and incoming.rs). *)
(* Senders retransmit until they see a reply, the network repeats, delays  *)
(* and loses copies, and the driver acts on the first copy only, giving    *)
(* every later one the first one's reply.                                  *)
(*                                                                         *)
(* Of a message only its origin, its message ID and which use of that ID   *)
(* it is (serial) matter; its reply is named by the serial and by how late *)
(* it was given.  Times are ages, lowered to a cap where they no longer    *)
(* make a difference.                                                      *)
(***************************************************************************)
EXTENDS Integers, Sequences

CONSTANTS
    BorderAgent,    \* Destination::BorderAgent
    Devices,        \* the mesh devices that send through the UDP proxy
    Ids,            \* CoAP message IDs
    Lifetime,       \* EXCHANGE_LIFETIME
    MaxRemembered,  \* MAX_REMEMBERED
    MaxSerial       \* bound on the uses of one ID

ASSUME OriginsAssumption == BorderAgent \notin Devices
ASSUME LifetimeAssumption == Lifetime \in Nat \ {0}
ASSUME MaxRememberedAssumption == MaxRemembered \in Nat \ {0}
ASSUME MaxSerialAssumption == MaxSerial \in Nat

VARIABLES
    entries,    \* AnsweredMessages::entries, oldest first
    linked,     \* the link holds a DTLS session
    over,       \* the driver has ended the session
    message,    \* message[o][i]: the message that last used ID i of origin o
    acted,      \* acted[o][i]: how often the driver acted on that message,
                \* 2 standing for every number above 1
    crowded     \* crowded[o][i]: its reply was forgotten to make room

answeredVars == <<entries, linked, over, message, acted, crowded>>

Origins == {BorderAgent} \cup Devices

UpTo(n, cap) == IF n < cap THEN n + 1 ELSE n

Live(e) == e.age < Lifetime

\* forget_expired: entries leave from the front only, while they are expired.
ForgetExpired(q) ==
    LET live == {i \in 1..Len(q) : Live(q[i])}
    IN  IF live = {} THEN <<>> ELSE SubSeq(q, CHOOSE i \in live : \A j \in live : i <= j, Len(q))

\* The entries reply_to finds for a message.
Found(q, o, i) == {k \in 1..Len(q) : q[k].origin = o /\ q[k].id = i}

\* remember: the oldest entry makes room when the record is full.
Remember(q, o, i, s) ==
    LET live == ForgetExpired(q)
        room == IF Len(live) = MaxRemembered THEN Tail(live) ELSE live
    IN  Append(room, [origin |-> o, id |-> i, reply |-> s, age |-> 0])

\* forget_border_agent: the entries of other origins stay, in their order.
ForgetBorderAgent(q) ==
    LET kept[k \in 0..Len(q)] ==
            IF k = 0 THEN <<>>
            ELSE IF q[k].origin = BorderAgent THEN kept[k - 1]
            ELSE Append(kept[k - 1], q[k])
    IN  kept[Len(q)]

-----------------------------------------------------------------------------
(* Senders.  serial 0: the ID is unused; lost: no copy can arrive any more. *)

\* A sender uses an ID for a new message: a fresh one, one first used at least
\* EXCHANGE_LIFETIME ago (RFC 7252, section 4.4), or, for the border agent, one
\* last used in an earlier DTLS session.
Send(o, i) ==
    /\ linked /\ ~over
    /\ message[o][i].serial < MaxSerial
    /\ \/ message[o][i].serial = 0
       \/ message[o][i].age = Lifetime
       \/ message[o][i].lost
    /\ message' = [message EXCEPT ![o][i] =
                      [serial |-> @.serial + 1, age |-> 0, lost |-> FALSE]]
    /\ acted' = [acted EXCEPT ![o][i] = 0]
    /\ crowded' = [crowded EXCEPT ![o][i] = FALSE]
    /\ UNCHANGED <<entries, linked, over>>

\* Some copy of the message can still arrive: EXCHANGE_LIFETIME is counted from
\* its first transmission.
UnderWay(o, i) ==
    LET m == message[o][i] IN m.serial > 0 /\ m.age < Lifetime /\ ~m.lost

-----------------------------------------------------------------------------
(* The driver.  route_direct and route_incoming treat a confirmable message *)
(* alike in what concerns its retransmissions.                              *)

\* answer_retransmission: a remembered message gets its reply again.
AnswerAgain(o, i) ==
    /\ linked /\ ~over
    /\ UnderWay(o, i)
    /\ Found(ForgetExpired(entries), o, i) # {}
    /\ entries' = ForgetExpired(entries)
    /\ UNCHANGED <<linked, over, message, acted, crowded>>

\* The reply to a message, which it gets however long ago it was first sent.
ReplyTo(m) == [serial |-> m.serial, late |-> m.age]

\* An entry belongs to the message that uses its ID now.
AnswersUse(e) == e.reply.serial = message[e.origin][e.id].serial

\* Any other message completes its exchange or publishes its event, is replied
\* to, and is remembered.  (What is unmatched or malformed is dropped, and a
\* failing reply ends the session.)
Act(o, i) ==
    /\ linked /\ ~over
    /\ UnderWay(o, i)
    /\ Found(ForgetExpired(entries), o, i) = {}
    /\ acted' = [acted EXCEPT ![o][i] = UpTo(@, 2)]
    /\ entries' = Remember(ForgetExpired(entries), o, i, ReplyTo(message[o][i]))
    /\ crowded' = IF Len(ForgetExpired(entries)) < MaxRemembered THEN crowded
                  ELSE LET e == Head(ForgetExpired(entries))
                       IN  [crowded EXCEPT ![e.origin][e.id] = @ \/ AnswersUse(e)]
    /\ UNCHANGED <<linked, over, message>>

\* A message that cannot be routed is dropped without a reply.
Drop(o, i) ==
    /\ linked /\ ~over
    /\ UnderWay(o, i)
    /\ Found(ForgetExpired(entries), o, i) = {}
    /\ entries' = ForgetExpired(entries)
    /\ UNCHANGED <<linked, over, message, acted, crowded>>

\* The reply, first or repeated, cannot be sent.  Whether the message was acted
\* on before (a notification) or not (a response), the session ends.
ReplyFails(o, i) ==
    /\ linked /\ ~over
    /\ UnderWay(o, i)
    /\ entries' = ForgetExpired(entries)
    /\ over' = TRUE
    /\ linked' = FALSE
    /\ \/ UNCHANGED acted
       \/ /\ Found(ForgetExpired(entries), o, i) = {}
          /\ acted' = [acted EXCEPT ![o][i] = UpTo(@, 2)]
    /\ UNCHANGED <<message, crowded>>

\* receive_failed: the border agent closes an unpetitioned session.  What it
\* sent in that session cannot arrive in the next.
Close ==
    /\ linked /\ ~over
    /\ linked' = FALSE
    /\ message' = [message EXCEPT ![BorderAgent] =
                      [i \in Ids |-> [@[i] EXCEPT !.lost = TRUE]]]
    /\ UNCHANGED <<entries, over, acted, crowded>>

\* Mutants of Reopen: nothing is forgotten; everything is.
ReopenKeepingAll ==
    /\ ~linked /\ ~over
    /\ linked' = TRUE
    /\ UNCHANGED <<entries, over, message, acted, crowded>>

ReopenForgettingAll ==
    /\ ~linked /\ ~over
    /\ linked' = TRUE
    /\ entries' = <<>>
    /\ UNCHANGED <<over, message, acted, crowded>>

\* ensure_open: a new session, in which the border agent may use its message
\* IDs again while devices on the mesh go on retransmitting.
Reopen ==
    /\ ~linked /\ ~over
    /\ linked' = TRUE
    /\ entries' = ForgetBorderAgent(entries)
    /\ UNCHANGED <<over, message, acted, crowded>>

TimePasses ==
    /\ ~over
    /\ entries' = [k \in 1..Len(entries) |->
                      [entries[k] EXCEPT !.age = UpTo(@, Lifetime)]]
    /\ message' = [o \in Origins |-> [i \in Ids |->
                      [message[o][i] EXCEPT !.age = UpTo(@, Lifetime)]]]
    /\ UNCHANGED <<linked, over, acted, crowded>>

AnsweredInit ==
    /\ entries = <<>>
    /\ linked = TRUE
    /\ over = FALSE
    /\ message = [o \in Origins |-> [i \in Ids |-> [serial |-> 0, age |-> 0, lost |-> FALSE]]]
    /\ acted = [o \in Origins |-> [i \in Ids |-> 0]]
    /\ crowded = [o \in Origins |-> [i \in Ids |-> FALSE]]

AnsweredNext ==
    \/ \E o \in Origins, i \in Ids : \/ Send(o, i)
                                     \/ AnswerAgain(o, i)
                                     \/ Act(o, i)
                                     \/ Drop(o, i)
                                     \/ ReplyFails(o, i)
    \/ Close
    \/ Reopen
    \/ TimePasses

AnsweredSpec == AnsweredInit /\ [][AnsweredNext]_answeredVars

-----------------------------------------------------------------------------
(* Properties *)

\* A remembered reply is given to copies of the message it answered: an entry
\* that reply_to can still return for an ID belongs to the message that uses the
\* ID now, in a session reopened with the same IDs too.  There is one exception.
\* The entry lives for EXCHANGE_LIFETIME from the answer (`at: Instant::now()` in
\* remember), the sender's ID for EXCHANGE_LIFETIME from the first transmission,
\* so after a late answer a new message can be taken for a copy of the old one,
\* get its reply and be lost.  This happens only to a copy that arrives sooner
\* after its message was first sent than the old message was answered after it
\* was first sent, so never after a prompt answer.
RepliesBelong ==
    \A k \in 1..Len(entries) :
        LET e == entries[k]
        IN  Live(e) /\ UnderWay(e.origin, e.id) =>
                AnswersUse(e) \/ message[e.origin][e.id].age < e.reply.late

\* However the copies of a message are delayed, repeated and reordered, across
\* reopened sessions too, the driver acts on the message once: it completes one
\* exchange or publishes one event.  Only a message whose reply was forgotten to
\* make room for MaxRemembered later ones may be acted on again.
ActedOnce ==
    \A o \in Origins, i \in Ids : acted[o][i] > 1 => crowded[o][i]
=============================================================================
