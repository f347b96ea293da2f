---------------------------- MODULE SessionDriver ----------------------------
(***************************************************************************)
(* The commissioner session driver (meshcop/src/commissioner/client/       *)
(* driver/mod.rs and exchange.rs) together with the handle side that feeds *)
(* it (client/mod.rs, client/requests.rs).                                 *)
(*                                                                         *)
(* One driver task owns the DTLS link and serves three sources, in this    *)
(* priority: due timers, received datagrams, handle commands.  Every       *)
(* handler runs to its end before the next wake.  Handles run in other     *)
(* tasks: they append commands, wait for a one-shot reply, may stop        *)
(* waiting, and may all be dropped.                                        *)
(*                                                                         *)
(* Time is a countdown: every armed timer holds the ticks that remain,     *)
(* Tick lowers them all, and 0 means due.  Tick is never blocked, so the   *)
(* driver may be arbitrarily late in serving a timer.                      *)
(***************************************************************************)
EXTENDS Integers, Sequences

CONSTANTS
    Calls,              \* identities of the calls handles make
    NoCall,             \* "nobody waits": an exchange the driver started itself
    Tokens,             \* CoAP tokens
    CallOps,            \* the operations handles call
    Automatic,          \* KeepAlive::Automatic (TRUE) or Manual (FALSE)
    AckTimeouts,        \* the randomised first retransmission timeouts
    MaxRetransmit,      \* COAP_MAX_RETRANSMIT
    ExchangeTimeout,    \* COAP_EXCHANGE_TIMEOUT
    KeepAliveInterval   \* config.keepalive_interval

(***************************************************************************)
(* What a handle can ask for.  The application requests differ in what     *)
(* `start` does with them: "con" and "non" wait for a response and only    *)
(* the first is retransmitted, "post" expects no response, "bad" cannot be *)
(* encoded.                                                                *)
(***************************************************************************)
AppOps == {"con", "non", "post", "bad"}
ControlOps == {"petition", "keepalive", "resign"}

ASSUME NoCallAssumption == NoCall \notin Calls
ASSUME CallOpsAssumption == CallOps \subseteq AppOps \cup ControlOps
ASSUME AutomaticAssumption == Automatic \in BOOLEAN
ASSUME AckTimeoutsAssumption == AckTimeouts \subseteq Nat \ {0}
ASSUME MaxRetransmitAssumption == MaxRetransmit \in Nat \ {0}
\* config.rs bounds the interval to 30..45 s; the exchange deadline is 12 s.
ASSUME TimeoutAssumption ==
    /\ ExchangeTimeout \in Nat \ {0}
    /\ KeepAliveInterval \in Nat
    /\ ExchangeTimeout < KeepAliveInterval
\* exchange.rs:23: the retries fit the deadline.  In units of the first timeout
\* n retries take waits[n], as each waits twice as long as the one before.
ASSUME ScheduleAssumption ==
    \E waits \in [0..MaxRetransmit -> 0..ExchangeTimeout] :
        /\ waits[0] = 0
        /\ \A n \in 1..MaxRetransmit : waits[n] = 2 * waits[n - 1] + 1
        /\ \A a \in AckTimeouts : a * waits[MaxRetransmit] < ExchangeTimeout

VARIABLES
    status,         \* SessionStatus
    reason,         \* the CloseReason of a closed session
    open,           \* whether the link holds a DTLS session
    inFlight,       \* Exchanges::in_flight
    queued,         \* Exchanges::queued: calls waiting for the slot, FIFO
    keepAliveAt,    \* Driver::keep_alive_at
    handlesDropped, \* Driver::handles_dropped
    lost,           \* the SessionLost events published, in order
    running,        \* the driver task exists
    commands,       \* the unbounded command channel
    handles,        \* some handle exists
    op,             \* op[c]: what call c asked for, "none" before it is made
    waiting,        \* waiting[c]: the caller of c awaits its reply
    result          \* result[c]: the reply to c, "none" until it is sent

session == <<status, reason, open, keepAliveAt, lost>>
exchanges == <<inFlight, queued>>
callers == <<op, waiting>>
vars == <<session, exchanges, handlesDropped, running, commands, handles,
          callers, result>>

Unset == -1
Timer(limit) == {Unset} \cup 0..limit

Statuses == {"connected", "idle", "petitioning", "active", "closed"}
Reasons == {"resigned", "peerClosed", "keepAliveRejected", "keepAlivePending",
            "keepAliveFailed", "transportFailed"}
\* "refused" is InvalidState, "unopened" a failed reopening, "io" the transport
\* error itself, "lost" SessionLost and "closed" SessionClosed.
Results == {"ok", "failed", "timeout", "refused", "unopened", "io", "lost",
            "closed"}

\* exchange.rs: Pending, with its completion flattened into kind and owner.
Pending == [token : Tokens, kind : {"caller"} \cup ControlOps,
            owner : Calls \cup {NoCall}, retransmissions : Nat,
            timeout : Nat, retryAt : {Unset} \cup Nat,
            deadline : 0..ExchangeTimeout]

Command == [do : {"call", "withdraw"}, call : Calls]

-----------------------------------------------------------------------------
(* Exchanges *)

OfKind(inf, k) == {p \in inf : p.kind = k}
ApplicationInFlight(inf) == OfKind(inf, "caller")
Resigning == OfKind(inFlight, "resign") # {}
KeepAliveOutstanding == OfKind(inFlight, "keepalive") # {}

\* The calls whose reply channel the given exchanges hold.
Owners(inf, q) ==
    ({p.owner : p \in inf} \ {NoCall}) \cup {q[i] : i \in 1..Len(q)}

\* A reply to `who`; nobody listens when the driver itself started the exchange.
Reply(res, who, r) == [c \in Calls |-> IF c = who THEN r ELSE res[c]]

ReplyAll(res, who, r) == [c \in Calls |-> IF c \in who THEN r ELSE res[c]]

\* The Pendings `start` may push for a request just sent: a token that no
\* in-flight exchange uses and, for a confirmable one, a randomised schedule.
NewPendings(inf, k, who, type) ==
    {[token |-> t, kind |-> k, owner |-> who, retransmissions |-> 0,
      timeout |-> a, retryAt |-> IF type = "con" THEN a ELSE Unset,
      deadline |-> ExchangeTimeout] :
        t \in Tokens \ {o.token : o \in inf}, a \in AckTimeouts}

-----------------------------------------------------------------------------
(* The effects handlers share.  Each takes the exchanges and replies as the *)
(* handler has left them so far and fixes the whole next session state.     *)

\* Mutants of EndSession: the queue is not failed; a resignation is published.
EndSessionKeepingQueued(inf, q, res, why) ==
    /\ status' = "closed" /\ reason' = why /\ keepAliveAt' = Unset /\ open' = FALSE
    /\ inFlight' = {} /\ queued' = <<>>
    /\ result' = ReplyAll(res, Owners(inf, <<>>),
                          IF why = "resigned" THEN "closed" ELSE "lost")
    /\ lost' = IF why = "resigned" THEN lost ELSE Append(lost, why)

EndSessionAlwaysLost(inf, q, res, why) ==
    /\ status' = "closed" /\ reason' = why /\ keepAliveAt' = Unset /\ open' = FALSE
    /\ inFlight' = {} /\ queued' = <<>>
    /\ result' = ReplyAll(res, Owners(inf, q),
                          IF why = "resigned" THEN "closed" ELSE "lost")
    /\ lost' = Append(lost, why)

\* end_session and fail_all: nothing outlives the session.  Completing a
\* drained exchange finds the session closed, so all it does is reply.
EndSession(inf, q, res, why) ==
    /\ status' = "closed"
    /\ reason' = why
    /\ keepAliveAt' = Unset
    /\ open' = FALSE
    /\ inFlight' = {}
    /\ queued' = <<>>
    /\ result' = ReplyAll(res, Owners(inf, q),
                          IF why = "resigned" THEN "closed" ELSE "lost")
    /\ lost' = IF why = "resigned" THEN lost ELSE Append(lost, why)

\* The session goes on in status st with keep-alive timer k.
Continue(st, k, inf, q, res) ==
    /\ status' = st
    /\ open' = TRUE
    /\ keepAliveAt' = k
    /\ inFlight' = inf
    /\ queued' = q
    /\ result' = res
    /\ UNCHANGED <<reason, lost>>

\* Mutants of ScheduledKeepAlive: one tick late; the timer is never re-armed.
ScheduledLate == IF Automatic THEN KeepAliveInterval + 1 ELSE keepAliveAt
ScheduledNever == keepAliveAt

\* schedule_keep_alive for a session that is active.
ScheduledKeepAlive == IF Automatic THEN KeepAliveInterval ELSE keepAliveAt

\* What completing the first n queued requests at once replies to them.
Immediate == {"post", "bad"}
ReplySent(res, q, n) ==
    [c \in Calls |->
        IF \E i \in 1..n : q[i] = c
        THEN IF op[c] = "bad" THEN "failed" ELSE "ok"
        ELSE res[c]]

\* send_queued: with the application slot free, queued requests are started
\* in order.  Those that complete at once are replied to and free the slot
\* again; the loop ends with request n in flight, with its send failing (which
\* ends the session before the caller hears of it), or with the queue empty.
SendQueued(st, inf, q, res) ==
    \/ /\ ApplicationInFlight(inf) # {} \/ q = <<>>
       /\ Continue(st, keepAliveAt, inf, q, res)
    \/ /\ ApplicationInFlight(inf) = {}
       /\ \E n \in 1..Len(q) :
            /\ \A i \in 1..(n - 1) : op[q[i]] \in Immediate
            /\ LET rest == SubSeq(q, n + 1, Len(q))
                   sent == ReplySent(res, q, n - 1)
               IN  \/ /\ op[q[n]] \notin Immediate
                      /\ \E p \in NewPendings(inf, "caller", q[n], op[q[n]]) :
                            Continue(st, keepAliveAt, inf \cup {p}, rest, sent)
                   \/ /\ op[q[n]] # "bad"
                      /\ EndSession(inf, rest, Reply(sent, q[n], "io"),
                                    "transportFailed")
                   \/ /\ n = Len(q)
                      /\ op[q[n]] \in Immediate
                      /\ Continue(st, keepAliveAt, inf, <<>>, ReplySent(res, q, n))

\* start, for a session-control request: sent and tracked, or the send fails.
StartControl(st, k, kind, who) ==
    \/ \E p \in NewPendings(inFlight, kind, who, "con") :
            Continue(st, k, inFlight \cup {p}, queued, result)
    \/ EndSession(inFlight, queued, Reply(result, who, "io"), "transportFailed")

\* complete, for an exchange that got an outcome while the session is up: one
\* of the answers a border agent gives, a Reset, or the deadline.
Answers == {"accept", "reject", "pending", "malformed"}
Outcomes == Answers \cup {"reset", "timeout"}

Failure(out) == IF out = "timeout" THEN "timeout" ELSE "failed"

Complete(p, out) ==
    LET rest == inFlight \ {p}
        Told(r) == Reply(result, p.owner, r)
    IN  \/ /\ p.kind = "caller"
           /\ SendQueued(status, rest, queued,
                         Told(IF out \in Answers THEN "ok" ELSE Failure(out)))
        \/ /\ p.kind = "petition"
           /\ \/ /\ out = "accept"
                 /\ Continue("active", ScheduledKeepAlive, rest, queued, Told("ok"))
              \/ /\ out # "accept"
                 /\ Continue("connected", keepAliveAt, rest, queued,
                             Told(Failure(out)))
        \/ /\ p.kind = "keepalive"
           /\ \/ /\ out = "accept"
                 /\ Continue(status, ScheduledKeepAlive, rest, queued, Told("ok"))
              \/ /\ out \in {"reject", "pending"}
                 /\ EndSession(rest, queued, Told("ok"),
                               IF out = "reject" THEN "keepAliveRejected"
                                                 ELSE "keepAlivePending")
              \/ /\ out \in {"malformed", "reset", "timeout"}
                 /\ EndSession(rest, queued, Told(Failure(out)), "keepAliveFailed")
        \/ /\ p.kind = "resign"
           /\ EndSession(rest, queued,
                         Told(IF out \in {"accept", "reject"} THEN "ok"
                                                              ELSE Failure(out)),
                         "resigned")

-----------------------------------------------------------------------------
(* The driver's loop: timers first, then datagrams, then commands. *)

ExchangeDue(p) == p.deadline = 0 \/ p.retryAt = 0
ExchangeTimerDue == \E p \in inFlight : ExchangeDue(p)
TimerDue == ExchangeTimerDue \/ keepAliveAt = 0

InLoop == running /\ status # "closed"
CanReceive == InLoop /\ open /\ ~TimerDue
CanTakeCommand == InLoop /\ ~TimerDue /\ ~handlesDropped

\* The channel's next command is do(c).
Takes(do, c) ==
    /\ CanTakeCommand
    /\ commands # <<>>
    /\ Head(commands) = [do |-> do, call |-> c]
    /\ commands' = Tail(commands)
    /\ UNCHANGED <<handlesDropped, running, handles, callers>>

\* A command the driver refuses or fails without touching the session.
Refuse(c, r) ==
    /\ result' = Reply(result, c, r)
    /\ UNCHANGED <<session, exchanges>>

\* handle_command, Exchange: refused while resigning; ensure_open reopens the
\* link of an idle session, which may fail; then submit.
ExchangeCommand(c) ==
    /\ Takes("call", c)
    /\ op[c] \in AppOps
    /\ \/ Resigning /\ Refuse(c, "refused")
       \/ ~Resigning /\ ~open /\ Refuse(c, "unopened")
       \/ /\ ~Resigning
          /\ SendQueued(IF open THEN status ELSE "connected", inFlight,
                        Append(queued, c), result)

\* handle_command, Withdraw: forgets a queued or in-flight request, then lets
\* the next one use the slot; an id that is gone is ignored.
HeldByCaller(c) == {p \in inFlight : p.kind = "caller" /\ p.owner = c}
RemoveAt(q, i) == SubSeq(q, 1, i - 1) \o SubSeq(q, i + 1, Len(q))

\* Mutants of WithdrawCommand: a freed slot is left idle; a call that is gone is
\* answered again.
WithdrawLeavingSlot(c) ==
    /\ Takes("withdraw", c)
    /\ \/ \E i \in 1..Len(queued) :
            /\ queued[i] = c
            /\ Continue(status, keepAliveAt, inFlight, RemoveAt(queued, i), result)
       \/ /\ HeldByCaller(c) # {}
          /\ Continue(status, keepAliveAt, inFlight \ HeldByCaller(c), queued, result)
       \/ /\ c \notin Owners(HeldByCaller(c), queued)
          /\ UNCHANGED <<session, exchanges, result>>

WithdrawAnswering(c) ==
    /\ Takes("withdraw", c)
    /\ \/ /\ c \in Owners(HeldByCaller(c), queued)
          /\ SendQueued(status, inFlight \ HeldByCaller(c),
                        SelectSeq(queued, LAMBDA d : d # c), Reply(result, c, "closed"))
       \/ /\ c \notin Owners(HeldByCaller(c), queued)
          /\ Refuse(c, "closed")

WithdrawCommand(c) ==
    /\ Takes("withdraw", c)
    /\ \/ \E i \in 1..Len(queued) :
            /\ queued[i] = c
            /\ SendQueued(status, inFlight, RemoveAt(queued, i), result)
       \/ /\ \A i \in 1..Len(queued) : queued[i] # c
          /\ HeldByCaller(c) # {}
          /\ SendQueued(status, inFlight \ HeldByCaller(c), queued, result)
       \/ /\ c \notin Owners(HeldByCaller(c), queued)
          /\ UNCHANGED <<session, exchanges, result>>

\* petition: only from a connected or idle session; reopens an idle one first,
\* and gives up if the commissioner ID cannot be encoded.
PetitionCommand(c) ==
    /\ Takes("call", c)
    /\ op[c] = "petition"
    /\ \/ status \notin {"connected", "idle"} /\ Refuse(c, "refused")
       \/ /\ status \in {"connected", "idle"}
          /\ \/ ~open /\ Refuse(c, "unopened")
             \/ Continue("connected", keepAliveAt, inFlight, queued,
                         Reply(result, c, "failed"))
             \/ StartControl("petitioning", keepAliveAt, "petition", c)

\* Mutant of KeepAliveCommand: an outstanding keep-alive is not looked for.
KeepAliveUnchecked(c) ==
    /\ Takes("call", c)
    /\ op[c] = "keepalive"
    /\ \/ (status # "active" \/ Resigning) /\ Refuse(c, "refused")
       \/ /\ status = "active" /\ ~Resigning
          /\ StartControl(status, Unset, "keepalive", c)

\* keep_alive: refused unless the session is active, not resigning and without
\* a keep-alive outstanding.
KeepAliveCommand(c) ==
    /\ Takes("call", c)
    /\ op[c] = "keepalive"
    /\ \/ /\ status # "active" \/ Resigning \/ KeepAliveOutstanding
          /\ Refuse(c, "refused")
       \/ /\ status = "active" /\ ~Resigning /\ ~KeepAliveOutstanding
          /\ StartControl(status, Unset, "keepalive", c)

\* resign: an active session is resigned over the network, any other one is
\* simply closed.
Resign(who) ==
    \/ /\ status # "active"
       /\ EndSession(inFlight, queued, Reply(result, who, "ok"), "resigned")
    \/ /\ status = "active"
       /\ StartControl(status, Unset, "resign", who)

ResignCommand(c) ==
    /\ Takes("call", c)
    /\ op[c] = "resign"
    /\ \/ Resigning /\ Refuse(c, "refused")
       \/ ~Resigning /\ Resign(c)

\* Mutant of HandlesDropped: the session is not resigned.
HandlesDroppedQuietly ==
    /\ CanTakeCommand /\ ~handles /\ commands = <<>>
    /\ handlesDropped' = TRUE
    /\ UNCHANGED <<session, exchanges, result, running, commands, handles, callers>>

\* handles_dropped: the channel is drained and has no sender left.
HandlesDropped ==
    /\ CanTakeCommand
    /\ ~handles
    /\ commands = <<>>
    /\ handlesDropped' = TRUE
    /\ \/ Resigning /\ UNCHANGED <<session, exchanges, result>>
       \/ ~Resigning /\ Resign(NoCall)
    /\ UNCHANGED <<running, commands, handles, callers>>

-----------------------------------------------------------------------------
(* Datagrams.  Which ones arrive, and when, is up to the network. *)

outside == <<handlesDropped, running, commands, handles, callers>>

\* handle_datagram with a response or a Reset that matches p.
ReceiveAnswer(p, out) ==
    /\ CanReceive
    /\ Complete(p, out)
    /\ UNCHANGED outside

\* A confirmable response is acknowledged between leaving in_flight and being
\* completed.  When that send fails the completion is dropped with its reply
\* channel, so the caller sees SessionClosed, and the session ends.
AnswerAckFails(p) ==
    /\ CanReceive
    /\ EndSession(inFlight \ {p}, queued, Reply(result, p.owner, "closed"),
                  "transportFailed")
    /\ UNCHANGED outside

\* An empty ACK stops retransmission; the response is still awaited.
ReceiveAck(p) ==
    /\ CanReceive
    /\ inFlight' = (inFlight \ {p}) \cup {[p EXCEPT !.retryAt = Unset]}
    /\ UNCHANGED <<session, queued, result, outside>>

\* The link fails on receive, or on the reply to a notification, a relayed
\* joiner message or a retransmission.
TransportFails ==
    /\ CanReceive
    /\ EndSession(inFlight, queued, result, "transportFailed")
    /\ UNCHANGED outside

\* Mutant of PeerCloses: an idle session keeps its exchanges.
PeerClosesKeeping ==
    /\ CanReceive
    /\ IF status # "active" /\ ~handlesDropped
       THEN /\ open' = FALSE
            /\ status' = "idle"
            /\ UNCHANGED <<exchanges, result, reason, keepAliveAt, lost>>
       ELSE EndSession(inFlight, queued, result, "peerClosed")
    /\ UNCHANGED outside

\* receive_failed with an authenticated close_notify.
PeerCloses ==
    /\ CanReceive
    /\ \/ /\ status # "active" /\ ~handlesDropped
          /\ open' = FALSE
          /\ status' = "idle"
          /\ inFlight' = {}
          /\ queued' = <<>>
          /\ result' = ReplyAll(result, Owners(inFlight, queued), "lost")
          /\ UNCHANGED <<reason, keepAliveAt, lost>>
       \/ /\ status = "active" \/ handlesDropped
          /\ EndSession(inFlight, queued, result, "peerClosed")
    /\ UNCHANGED outside

-----------------------------------------------------------------------------
(* Timers.  run_timers visits the due exchanges and then the keep-alive     *)
(* timer.  The model visits one per step; while any is due, the guards      *)
(* above keep the driver from doing anything else.                          *)

\* The deadline is checked before the retransmission.
Expire(p) ==
    /\ InLoop
    /\ p.deadline = 0
    /\ Complete(p, "timeout")
    /\ UNCHANGED outside

\* Mutant of Retransmitted: one retry too many.
RetransmittedOnceMore(p) ==
    [p EXCEPT !.retransmissions = @ + 1,
              !.timeout = 2 * @,
              !.retryAt = IF p.retransmissions < MaxRetransmit
                          THEN 2 * p.timeout ELSE Unset]

\* record_retransmission, and the next retry if the schedule has one.
Retransmitted(p) ==
    [p EXCEPT !.retransmissions = @ + 1,
              !.timeout = 2 * @,
              !.retryAt = IF p.retransmissions + 1 < MaxRetransmit
                          THEN 2 * p.timeout ELSE Unset]

Retransmit(p) ==
    /\ InLoop
    /\ p.deadline # 0
    /\ p.retryAt = 0
    /\ \/ /\ inFlight' = (inFlight \ {p}) \cup {Retransmitted(p)}
          /\ UNCHANGED <<session, queued, result>>
       \/ EndSession(inFlight, queued, result, "transportFailed")
    /\ UNCHANGED outside

\* Mutant of KeepAliveTimer: served before the due exchanges.
KeepAliveTimerFirst ==
    /\ InLoop
    /\ keepAliveAt = 0
    /\ StartControl(status, Unset, "keepalive", NoCall)
    /\ UNCHANGED outside

\* A due keep-alive timer, once no exchange timer is due.
KeepAliveTimer ==
    /\ InLoop
    /\ ~ExchangeTimerDue
    /\ keepAliveAt = 0
    /\ IF status = "active"
       THEN StartControl(status, Unset, "keepalive", NoCall)
       ELSE EndSession(inFlight, queued, result, "keepAliveFailed")
    /\ UNCHANGED outside

Lowered(t) == IF t > 0 THEN t - 1 ELSE t
Aged(p) == [p EXCEPT !.deadline = Lowered(@), !.retryAt = Lowered(@)]

Tick ==
    /\ running
    /\ keepAliveAt > 0 \/ \E p \in inFlight : p.deadline > 0
    /\ keepAliveAt' = Lowered(keepAliveAt)
    /\ inFlight' = {Aged(p) : p \in inFlight}
    /\ UNCHANGED <<status, reason, open, lost, queued, result, outside>>

-----------------------------------------------------------------------------
(* The end of the driver task. *)

\* The callers whose commands are dropped unread with the channel.
Unread == {commands[i].call : i \in {j \in 1..Len(commands) : commands[j].do = "call"}}

\* run returns: the session is closed and the task drops its channel.
Stop ==
    /\ running
    /\ status = "closed"
    /\ running' = FALSE
    /\ commands' = <<>>
    /\ result' = ReplyAll(result, Unread, "closed")
    /\ UNCHANGED <<session, exchanges, handlesDropped, handles, callers>>

\* The task is dropped without ending the session: the runtime shuts down, or
\* a joiner handler panics.  Every reply channel it held goes with it.
TaskStops ==
    /\ InLoop
    /\ running' = FALSE
    /\ open' = FALSE
    /\ keepAliveAt' = Unset
    /\ inFlight' = {}
    /\ queued' = <<>>
    /\ commands' = <<>>
    /\ result' = ReplyAll(result, Unread \cup Owners(inFlight, queued), "closed")
    /\ UNCHANGED <<status, reason, lost, handlesDropped, handles, callers>>

-----------------------------------------------------------------------------
(* Handles *)

\* A handle sends a command and awaits the reply; sending fails once the task
\* is gone.
Call(c, o) ==
    /\ handles
    /\ op[c] = "none"
    /\ op' = [op EXCEPT ![c] = o]
    /\ waiting' = [waiting EXCEPT ![c] = TRUE]
    /\ IF running
       THEN /\ commands' = Append(commands, [do |-> "call", call |-> c])
            /\ result' = result
       ELSE /\ result' = Reply(result, c, "closed")
            /\ commands' = commands
    /\ UNCHANGED <<session, exchanges, handlesDropped, running, handles>>

\* The future of a call ends: with its reply, or dropped before that.  Either
\* way WithdrawOnDrop tells the driver when it was an application request.
StopWaiting(c) ==
    /\ waiting[c]
    /\ waiting' = [waiting EXCEPT ![c] = FALSE]
    /\ commands' = IF running /\ op[c] \in AppOps
                   THEN Append(commands, [do |-> "withdraw", call |-> c])
                   ELSE commands
    /\ UNCHANGED <<session, exchanges, handlesDropped, running, handles, op, result>>

\* The last handle is dropped; a call in progress borrows one.
DropHandles ==
    /\ handles
    /\ \A c \in Calls : ~waiting[c]
    /\ handles' = FALSE
    /\ UNCHANGED <<session, exchanges, handlesDropped, running, commands, callers,
                   result>>

-----------------------------------------------------------------------------
\* spawn: the handshake is done, nothing has been asked of the driver.
Init ==
    /\ status = "connected"
    /\ reason = "none"
    /\ open = TRUE
    /\ inFlight = {}
    /\ queued = <<>>
    /\ keepAliveAt = Unset
    /\ handlesDropped = FALSE
    /\ lost = <<>>
    /\ running = TRUE
    /\ commands = <<>>
    /\ handles = TRUE
    /\ op = [c \in Calls |-> "none"]
    /\ waiting = [c \in Calls |-> FALSE]
    /\ result = [c \in Calls |-> "none"]

HandleCommand ==
    \/ \E c \in Calls : \/ ExchangeCommand(c)
                        \/ WithdrawCommand(c)
                        \/ PetitionCommand(c)
                        \/ KeepAliveCommand(c)
                        \/ ResignCommand(c)
    \/ HandlesDropped

Receive ==
    \/ \E p \in inFlight : \/ \E out \in Answers \cup {"reset"} : ReceiveAnswer(p, out)
                           \/ AnswerAckFails(p)
                           \/ ReceiveAck(p)
    \/ TransportFails
    \/ PeerCloses

RunTimers ==
    \/ \E p \in inFlight : Expire(p) \/ Retransmit(p)
    \/ KeepAliveTimer

Handle ==
    \/ \E c \in Calls : \/ \E o \in CallOps : Call(c, o)
                        \/ StopWaiting(c)
    \/ DropHandles

Next ==
    \/ HandleCommand
    \/ Receive
    \/ RunTimers
    \/ Tick
    \/ Stop
    \/ TaskStops
    \/ Handle

Spec == Init /\ [][Next]_vars

\* The runtime keeps polling the driver and time passes.  Commands rank last in
\* the biased select, so they are only ever held up for as long as timers (or
\* datagrams) are ready; a timer re-arms far later than it is served, hence
\* strong fairness for commands.
Fairness ==
    /\ WF_vars(Tick)
    /\ WF_vars(RunTimers)
    /\ SF_vars(HandleCommand)
    /\ WF_vars(Stop)

FairSpec == Spec /\ Fairness

\* A driver that is never late: a due timer is served before time goes on.
PunctualNext ==
    \/ HandleCommand \/ Receive \/ RunTimers \/ Stop \/ TaskStops \/ Handle
    \/ ~TimerDue /\ Tick

PunctualSpec == Init /\ [][PunctualNext]_vars

-----------------------------------------------------------------------------
(* Properties *)

\* Every variable has the type its Rust counterpart gives it.
TypeOK ==
    /\ status \in Statuses
    /\ reason \in Reasons \cup {"none"}
    /\ open \in BOOLEAN
    /\ inFlight \subseteq Pending
    /\ queued \in Seq(Calls)
    /\ keepAliveAt \in Timer(KeepAliveInterval)
    /\ handlesDropped \in BOOLEAN
    /\ lost \in Seq(Reasons)
    /\ running \in BOOLEAN
    /\ commands \in Seq(Command)
    /\ handles \in BOOLEAN
    /\ op \in [Calls -> AppOps \cup ControlOps \cup {"none"}]
    /\ waiting \in [Calls -> BOOLEAN]
    /\ result \in [Calls -> Results \cup {"none"}]

\* A caller that still waits is known to the driver: its command is unread, or
\* its request is queued or in flight.  No path through refusals, withdrawals,
\* failed sends, session ends or a stopped task leaves a caller hanging.
NoCallerForgotten ==
    \A c \in Calls :
        waiting[c] /\ result[c] = "none" =>
            c \in Unread \cup Owners(inFlight, queued)

\* A call is replied to at most once: no handler answers a call that an earlier
\* one (an expiry, a session end, a withdrawal) has already answered.
AnsweredOnce ==
    [][\A c \in Calls : result[c] # "none" => result'[c] = result[c]]_vars

\* At most one application exchange, one petition, one keep-alive and one
\* resignation are outstanding (MAX_APPLICATION_IN_FLIGHT, the refusals of
\* handle_command, and a timer cleared while a keep-alive is outstanding).
OneExchangePerKind ==
    \A p, q \in inFlight : p.kind = q.kind => p = q

\* The slot is never left free while requests queue: every way an application
\* exchange ends lets the next one start.
SlotNeverIdle ==
    queued # <<>> => ApplicationInFlight(inFlight) # {}

\* The published status agrees with what the driver holds.  The link is up in
\* exactly the connected, petitioning and active states; a petition is
\* outstanding exactly while petitioning; keep-alives, resignations and the
\* keep-alive timer exist only in an active session; nothing is outstanding
\* without a link, so reopening one never delays a timer.
StatusMatchesExchanges ==
    running =>
        /\ open <=> status \in {"connected", "petitioning", "active"}
        /\ OfKind(inFlight, "petition") # {} <=> status = "petitioning"
        /\ Resigning \/ KeepAliveOutstanding \/ keepAliveAt # Unset
                => status = "active"
        /\ ~open => inFlight = {} /\ queued = <<>>

\* With automatic keep-alives an active session that is not resigning has its
\* next keep-alive either scheduled or outstanding, never neither (the session
\* would silently expire) and never both (mod.rs:361).
KeepAliveNeverForgotten ==
    running /\ Automatic /\ status = "active" /\ ~Resigning =>
        (keepAliveAt # Unset <=> ~KeepAliveOutstanding)

\* Once a resignation is outstanding the driver takes on nothing new: no call
\* is queued or started and no keep-alive is sent, although the answer to an
\* earlier keep-alive may re-arm the timer meanwhile.
NothingNewWhileResigning ==
    [][Resigning /\ Resigning' =>
          /\ Owners(inFlight', queued') \subseteq Owners(inFlight, queued)
          /\ KeepAliveOutstanding' => KeepAliveOutstanding]_vars

\* A session that ends is final, and its loss is published exactly once, with
\* the reason its status gives, unless it was resigned.
LossPublishedOnce ==
    lost = IF status = "closed" /\ reason # "resigned" THEN <<reason>> ELSE <<>>

\* Served on time, every retransmission the schedule plans happens before the
\* exchange deadline (exchange.rs:23).
RetriesFitDeadline ==
    \A p \in inFlight : p.retryAt # Unset => p.retryAt < p.deadline

\* session-driver.md:123-126: session control uses one reserved slot, so at most
\* two exchanges are outstanding.
AtMostTwoOutstanding ==
    \A p, q, r \in inFlight : p = q \/ p = r \/ q = r

\* error.rs:59 and session-driver.md:324: a request outstanding when the session
\* is lost fails with SessionLost (or with its own outcome), never as if the
\* handle had been used after the end.
OutstandingCallsHearOfLoss ==
    [][lost' # lost =>
          \A c \in Owners(inFlight, queued) : result'[c] # "closed"]_vars

\* Every caller that keeps waiting is eventually answered.
EveryCallAnswered ==
    \A c \in Calls : waiting[c] ~> (result[c] # "none" \/ ~waiting[c])

\* Once the last handle is dropped the driver ends its session and stops.
DroppedHandlesStopDriver == ~handles ~> ~running
=============================================================================
