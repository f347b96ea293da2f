------------------------------- MODULE Handles -------------------------------
(***************************************************************************)
(* The typed operations of cloned Commissioner handles (client/datasets.rs,*)
(* client/commands.rs, client/diagnostics.rs, client/relay.rs): what each  *)
(* checks, locks, looks up and sends, and when it returns.  Composed with  *)
(* the mesh-local prefix cache they share (PrefixCache) and with an event  *)
(* subscriber (Subscription).                                              *)
(*                                                                         *)
(* The session driver is represented by what it promises a call: a request *)
(* is executed at most once, perhaps after its caller stopped waiting, and *)
(* every call gets an answer or an error.  The leader (external) keeps the *)
(* commissioner dataset, here its steering data.                           *)
(***************************************************************************)
EXTENDS PrefixCache, Subscription, FiniteSets

CONSTANTS
    Joiners,        \* joiner IDs
    BloomBits,      \* BloomBits[j]: the filter bits of a joiner
    Operations,     \* the operations that callers use
    MaxCalls        \* bound on the calls

ASSUME HandlesAssumption ==
    /\ \A j \in Joiners : IsFiniteSet(BloomBits[j]) /\ BloomBits[j] # {}
    /\ None \notin Joiners
    /\ MaxCalls \in Nat

VARIABLES
    status,     \* the session: "Connected", "Active" or "Closed"
    call,       \* call[c]: what c is doing
    writes,     \* commissioner_dataset_writes: the callers in its queue, holder first
    requests,   \* the requests under way to the mesh
    steering,   \* the leader's Steering Data TLV
    owed,       \* history: the joiners whose enabling succeeded and that no later write replaced
    strays,     \* history: a write took effect after its caller gave it up
    started,    \* how many calls were made
    notifying   \* events that the driver is about to publish

handles == <<status, call, writes, requests, steering, owed, strays, started, notifying>>
allVars == <<prefixVars, subscription, handles>>

-----------------------------------------------------------------------------
(* Steering data: its length in bytes and the bits that are set. *)

NoSteering == [length |-> 0, bits |-> {}]
FullLength == 16    \* MAX_STEERING_DATA_LEN
EveryBit == UNION {BloomBits[j] : j \in Joiners}

\* enable_all_joiners writes one byte, 0xff or 0x00.
AllJoiners(enable) == [length |-> 1, bits |-> IF enable THEN EveryBit ELSE {}]

\* add_joiner_to_steering_data: data of any other length is cleared first.
AddJoiner(s, j) ==
    [length |-> FullLength,
     bits |-> (IF s.length = FullLength THEN s.bits ELSE {}) \cup BloomBits[j]]

\* What a joiner router makes of it.
Admits(s, j) == s.length > 0 /\ BloomBits[j] \subseteq s.bits

-----------------------------------------------------------------------------
(* The operations.  An operation is described by what it does before its     *)
(* request leaves: whether it takes the write lock, whether it needs an      *)
(* active session, and whom it is sent to; and whether it waits.             *)

Operation(name, locks, active, via, waits) ==
    [name |-> name, locks |-> locks, active |-> active, via |-> via, waits |-> waits]

enable_joiner == Operation("enable_joiner", TRUE, FALSE, "leader", TRUE)
set_commissioner_dataset == Operation("set_commissioner_dataset", TRUE, TRUE, "leader", TRUE)
get_commissioner_dataset == Operation("get", FALSE, FALSE, "leader", TRUE)
get_dataset == Operation("get", FALSE, FALSE, "border agent", TRUE)
set_dataset == Operation("set", FALSE, TRUE, "border agent", TRUE)
set_secure_pending_dataset == Operation("set", FALSE, TRUE, "backbone router", TRUE)
register_multicast_listener == Operation("register", FALSE, TRUE, "backbone router", TRUE)
command(multicast) == Operation("command", FALSE, TRUE, "device", ~multicast)
diagnostic_get == Operation("diagnostics", FALSE, TRUE, "leader", TRUE)
get_diagnostics == Operation("diagnostics", FALSE, TRUE, "device", TRUE)
send_to_joiner == Operation("relay", FALSE, FALSE, "border agent", FALSE)

ASSUME OperationsAssumption ==
    Operations \subseteq
        {enable_joiner, set_commissioner_dataset, get_commissioner_dataset, get_dataset, set_dataset,
         set_secure_pending_dataset, register_multicast_listener, command(TRUE), command(FALSE),
         diagnostic_get, get_diagnostics, send_to_joiner}

\* The operations whose destination is an ALOC under the mesh-local prefix.
Anycast(op) == op.via \in {"leader", "backbone router"}

\* A call between its operations' awaits.  `address` is the prefix of the ALOC
\* it uses, `steering` the data it writes.
Idle == [stage |-> "idle", number |-> 0]
Calling(number, op, stage, joiner, s) ==
    [stage |-> stage, number |-> number, op |-> op, joiner |-> joiner, steering |-> s,
     address |-> None]

InCall(c) == call[c].stage # "idle"
HoldsLock(c) == writes # <<>> /\ Head(writes) = c

\* enable_joiner reads before it writes; set_commissioner_dataset writes.
FirstStage(op) == IF op = enable_joiner THEN "read" ELSE "check"

\* A call begins: it queues for the lock if its operation takes it.
Begin(c, op, joiner, s) ==
    /\ ~InCall(c)
    /\ started < MaxCalls
    /\ started' = started + 1
    /\ call' = [call EXCEPT ![c] =
                  Calling(started + 1, op, IF op.locks THEN "queued" ELSE FirstStage(op), joiner, s)]
    /\ writes' = IF op.locks THEN Append(writes, c) ELSE writes
    /\ UNCHANGED <<prefixVars, subscription, status, requests, steering, owed, strays, notifying>>

Calls(c) ==
    \E op \in Operations :
        CASE op = enable_joiner -> \E j \in Joiners : Begin(c, op, j, NoSteering)
          [] op = set_commissioner_dataset ->
                \E enable \in BOOLEAN : Begin(c, op, None, AllJoiners(enable))
          [] OTHER -> Begin(c, op, None, NoSteering)

\* Mutant of Acquire: the lock is not waited for.
AcquireAtOnce(c) ==
    /\ call[c].stage = "queued"
    /\ call' = [call EXCEPT ![c].stage = FirstStage(call[c].op)]
    /\ UNCHANGED <<prefixVars, subscription, status, writes, requests, steering, owed, strays, started, notifying>>

\* tokio::sync::Mutex::lock, first come first served.
Acquire(c) ==
    /\ call[c].stage = "queued"
    /\ HoldsLock(c)
    /\ call' = [call EXCEPT ![c].stage = FirstStage(call[c].op)]
    /\ UNCHANGED <<prefixVars, subscription, status, writes, requests, steering, owed, strays, started, notifying>>

\* session_id_required: what needs the session ID fails without one.
CheckSession(c) ==
    /\ call[c].stage = "check"
    /\ call[c].op.active \/ call[c].op = enable_joiner => status = "Active"
    /\ call' = [call EXCEPT ![c].stage = "write"]
    /\ UNCHANGED <<prefixVars, subscription, status, writes, requests, steering, owed, strays, started, notifying>>

\* leader_aloc, primary_bbr_aloc: the cached prefix, or a fetch.
NeedsAddress(c) ==
    /\ call[c].stage \in {"read", "write"}
    /\ Anycast(call[c].op)
    /\ call[c].address = None

UseCached(c) ==
    /\ NeedsAddress(c)
    /\ step[c] = "idle"
    /\ prefix # None
    /\ call' = [call EXCEPT ![c].address = prefix]
    /\ UNCHANGED <<prefixVars, subscription, status, writes, requests, steering, owed, strays, started, notifying>>

Fetch(c) ==
    /\ NeedsAddress(c)
    /\ \/ Lookup(c)
       \/ status # "Closed" /\ Answer(c)
    /\ UNCHANGED <<subscription, handles>>

UseFetched(c) ==
    /\ NeedsAddress(c)
    /\ Store(c)
    /\ call' = [call EXCEPT ![c].address = read[c]]
    /\ UNCHANGED <<subscription, status, writes, requests, steering, owed, strays, started, notifying>>

\* A request under way.  A call that no longer waits leaves it behind.
Request(c) ==
    [number |-> call[c].number, stage |-> call[c].stage, to |-> call[c].address,
     joiner |-> call[c].joiner, steering |-> call[c].steering, done |-> FALSE]

\* The lock's queue once c has left it, from the front or out of the middle.
Without(queue, c) ==
    IF \E i \in 1..Len(queue) : queue[i] = c
    THEN LET i == CHOOSE i \in 1..Len(queue) : queue[i] = c
         IN  SubSeq(queue, 1, i - 1) \o SubSeq(queue, i + 1, Len(queue))
    ELSE queue

\* The call ends, the lock guard with it; requests it leaves are abandoned.
Return(c) ==
    /\ call' = [call EXCEPT ![c] = Idle]
    /\ writes' = Without(writes, c)

\* submit: an operation that does not wait returns as soon as it is sent.
Submit(c) ==
    /\ call[c].stage \in {"read", "write"}
    /\ ~NeedsAddress(c)
    /\ status # "Closed"
    /\ IF call[c].op.locks
       THEN requests' = requests \cup {Request(c)}
       ELSE UNCHANGED requests
    /\ IF call[c].op.waits
       THEN /\ call' = [call EXCEPT ![c].stage =
                            IF @ = "read" THEN "reading" ELSE "writing"]
            /\ UNCHANGED writes
       ELSE Return(c)
    /\ UNCHANGED <<prefixVars, subscription, status, steering, owed, strays, started, notifying>>

Answered(c) == {r \in requests : r.number = call[c].number /\ r.done}
Abandoned(r) == \A c \in Callers : call[c].number # r.number

\* The leader reads or replaces its steering data; only a request sent under
\* the network's prefix reaches it, and it may never arrive.
Execute(r) ==
    /\ ~r.done
    /\ r.to = current
    /\ IF r.stage = "read"
       THEN /\ ~Abandoned(r)
            /\ requests' = (requests \ {r}) \cup {[r EXCEPT !.done = TRUE, !.steering = steering]}
            /\ UNCHANGED <<steering, owed, strays>>
       ELSE /\ steering' = r.steering
            /\ requests' = (requests \ {r}) \cup
                            IF Abandoned(r) THEN {} ELSE {[r EXCEPT !.done = TRUE]}
            /\ strays' = (strays \/ Abandoned(r))
            /\ owed' = IF r.joiner = None THEN {} ELSE owed
    /\ UNCHANGED <<prefixVars, subscription, status, call, writes, started, notifying>>

\* The GET of enable_joiner is answered.
ReadDone(c) ==
    /\ call[c].stage = "reading"
    /\ \E r \in Answered(c) :
          /\ requests' = requests \ {r}
          /\ call' = [call EXCEPT ![c] =
                        Calling(call[c].number, call[c].op, "check", call[c].joiner,
                                AddJoiner(r.steering, call[c].joiner))]
    /\ UNCHANGED <<prefixVars, subscription, status, writes, steering, owed, strays, started, notifying>>

\* The request is answered with an Accept state.
WriteDone(c) ==
    /\ call[c].stage = "writing"
    /\ IF call[c].op.locks
       THEN \E r \in Answered(c) :
               /\ requests' = requests \ {r}
               /\ owed' = IF r.joiner = None THEN owed ELSE owed \cup {r.joiner}
       ELSE status # "Closed" /\ UNCHANGED <<requests, owed>>
    /\ Return(c)
    /\ UNCHANGED <<prefixVars, subscription, status, steering, strays, started, notifying>>

\* Mutant of Fails: a failed call keeps its place in the lock's queue.
FailsHolding(c) ==
    /\ InCall(c)
    /\ IF step[c] = "idle" THEN UNCHANGED prefixVars ELSE Fail(c)
    /\ call' = [call EXCEPT ![c] = Idle]
    /\ UNCHANGED <<subscription, status, writes, requests, steering, owed, strays, started, notifying>>

\* The call returns an error at one of its awaits (no session, a refused or
\* unanswered request, a closed session), or its future is dropped.  Only a
\* write that it leaves under way still matters.
Fails(c) ==
    /\ InCall(c)
    /\ IF step[c] = "idle" THEN UNCHANGED prefixVars ELSE Fail(c)
    /\ Return(c)
    /\ requests' = requests \ (Answered(c) \cup {r \in requests : r.number = call[c].number /\ r.stage = "read"})
    /\ UNCHANGED <<subscription, status, steering, owed, strays, started, notifying>>

-----------------------------------------------------------------------------
(* The session and its events. *)

\* A petition is accepted; the session ends.
Activate ==
    /\ status = "Connected"
    /\ status' = "Active"
    /\ UNCHANGED <<prefixVars, subscription, call, writes, requests, steering, owed, strays, started, notifying>>

EndSession ==
    /\ status # "Closed"
    /\ notifying = <<>>
    /\ status' = "Closed"
    /\ CloseChannel
    /\ UNCHANGED <<prefixVars, call, writes, requests, steering, owed, strays, started, notifying>>

DatasetChanges ==
    /\ Change
    /\ UNCHANGED <<subscription, handles>>

\* Mutant of NotificationArrives: the event is published, the cache kept.
NotificationOnlyPublished ==
    /\ status # "Closed"
    /\ notifying = <<>>
    /\ unhandled > 0
    /\ unhandled' = unhandled - 1
    /\ notifying' = <<current>>
    /\ UNCHANGED <<current, repeats, prefix, generation, step, noted, read, subscription, status, call,
                   writes, requests, steering, owed, strays, started>>

\* route_unsolicited_message: the driver empties the cache, then publishes.
NotificationArrives ==
    /\ status # "Closed"
    /\ notifying = <<>>
    /\ Invalidate
    /\ notifying' = <<current>>
    /\ UNCHANGED <<subscription, status, call, writes, requests, steering, owed, strays, started>>

PublishChange ==
    /\ notifying # <<>>
    /\ Publish(Head(notifying))
    /\ notifying' = Tail(notifying)
    /\ UNCHANGED <<prefixVars, status, call, writes, requests, steering, owed, strays, started>>

Subscriber == NextEvent /\ UNCHANGED <<prefixVars, handles>>

-----------------------------------------------------------------------------

HandlesInit ==
    /\ PrefixInit
    /\ SubscriptionInit
    /\ status = "Connected"
    /\ call = [c \in Callers |-> Idle]
    /\ writes = <<>>
    /\ requests = {}
    /\ steering = NoSteering
    /\ owed = {}
    /\ strays = FALSE
    /\ started = 0
    /\ notifying = <<>>

CallerSteps(c) ==
    \/ Calls(c)
    \/ Acquire(c)
    \/ CheckSession(c)
    \/ UseCached(c)
    \/ Fetch(c)
    \/ UseFetched(c)
    \/ Submit(c)
    \/ ReadDone(c)
    \/ WriteDone(c)
    \/ Fails(c)

HandlesNext ==
    \/ \E c \in Callers : CallerSteps(c)
    \/ \E r \in requests : Execute(r)
    \/ Activate
    \/ EndSession
    \/ DatasetChanges
    \/ NotificationArrives
    \/ PublishChange
    \/ Subscriber

HandlesSafety == HandlesInit /\ [][HandlesNext]_allVars

\* The executor polls a call that can go on, and the driver answers or fails
\* every request (EveryCallAnswered of SessionDriver).
HandlesSpec ==
    /\ HandlesSafety
    /\ \A c \in Callers : WF_allVars(Acquire(c)) /\ WF_allVars(Fails(c) /\ call[c].stage # "queued")

-----------------------------------------------------------------------------
(* Properties *)

\* "Concurrent calls from cloned handles are serialized, so none of their
\* joiners is lost": every joiner whose enable_joiner returned Ok is admitted
\* by the leader's steering data until a later write replaces it, unless a
\* write that its caller had given up takes effect late.
JoinersKept == ~strays => \A j \in owed : Admits(steering, j)

\* A subscriber that was told of a dataset change never finds an older prefix
\* in the cache: the driver empties the cache before it publishes the event.
HeardOfFreshPrefix == prefix # None => prefix >= heard

\* Every call ends, and none waits for ever for the lock of one that failed.
CallsEnd == \A c \in Callers : InCall(c) ~> ~InCall(c)
=============================================================================
