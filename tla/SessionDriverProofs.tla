------------------------- MODULE SessionDriverProofs -------------------------
(***************************************************************************)
(* Proofs about SessionDriver and AnsweredMessages, for every set of calls *)
(* and tokens, every choice of timeouts, and every set of senders and      *)
(* message IDs that satisfies the modules' assumptions.                    *)
(*                                                                         *)
(* Every handler ends in one of three effects: EndSession, Continue, or    *)
(* leaving the session alone.  The inductive invariant Core is therefore   *)
(* phrased as a condition Sound(st, k, inf) on what Continue is given, and *)
(* a handler's proof is that it passes sound values on.                    *)
(*                                                                         *)
(* For the calls, the invariant says that every call is in at most one     *)
(* place (the command channel, the queue, or one exchange in flight) and   *)
(* is unanswered while it is in one; for retransmissions, that the retries *)
(* an exchange has left fit the time it has left.                          *)
(***************************************************************************)
EXTENDS SessionDriver, AnsweredMessages, TLAPS

ResultMap == [Calls -> Results \cup {"none"}]

SessionType ==
    /\ status \in Statuses
    /\ reason \in Reasons \cup {"none"}
    /\ open \in BOOLEAN
    /\ inFlight \subseteq Pending
    /\ queued \in Seq(Calls)
    /\ keepAliveAt \in Timer(KeepAliveInterval)
    /\ lost \in Seq(Reasons)
    /\ running \in BOOLEAN
    /\ result \in ResultMap

OuterType ==
    /\ handlesDropped \in BOOLEAN
    /\ commands \in Seq(Command)
    /\ handles \in BOOLEAN
    /\ op \in [Calls -> AppOps \cup ControlOps \cup {"none"}]
    /\ waiting \in [Calls -> BOOLEAN]

\* What holds of an open session in status st with keep-alive timer k and the
\* exchanges inf in flight.  The last conjunct is the strengthening that makes
\* "no keep-alive while resigning" inductive: a timer armed while a resignation
\* is outstanding runs out after the resignation's deadline.
Sound(st, k, inf) ==
    /\ st \in {"connected", "petitioning", "active"}
    /\ \A p, q \in inf : p.kind = q.kind => p = q
    /\ (\E p \in inf : p.kind = "petition") <=> st = "petitioning"
    /\ (\E p \in inf : p.kind \in {"keepalive", "resign"}) => st = "active"
    /\ k # Unset => st = "active" /\ \A p \in inf : p.kind # "keepalive"
    /\ Automatic /\ st = "active" /\ (\A p \in inf : p.kind # "resign") =>
            k # Unset \/ \E p \in inf : p.kind = "keepalive"
    /\ \A p \in inf : p.kind = "resign" /\ k # Unset =>
            p.deadline = 0 \/ p.deadline < k

Up == open => running /\ Sound(status, keepAliveAt, inFlight)

Down ==
    ~open => /\ inFlight = {}
             /\ queued = <<>>
             /\ keepAliveAt = Unset
             /\ running => status \in {"idle", "closed"}

Closed == status = "closed" => ~open

Core == SessionType /\ Up /\ Down /\ Closed /\ SlotNeverIdle /\ LossPublishedOnce

-----------------------------------------------------------------------------
(* Effects *)

\* Replying to one call keeps the type of the replies.
LEMMA ReplyType ==
    ASSUME NEW res \in ResultMap, NEW who, NEW r \in Results
    PROVE  Reply(res, who, r) \in ResultMap
BY Zenon DEF Reply, ResultMap

\* Replying to many calls keeps the type of the replies.
LEMMA ReplyAllType ==
    ASSUME NEW res \in ResultMap, NEW who, NEW r \in Results
    PROVE  ReplyAll(res, who, r) \in ResultMap
BY Zenon DEF ReplyAll, ResultMap

\* Replying to requests that complete at once keeps the type of the replies.
LEMMA ReplySentType ==
    ASSUME NEW res \in ResultMap, NEW q, NEW n
    PROVE  ReplySent(res, q, n) \in ResultMap
BY Zenon DEF ReplySent, ResultMap, Results

\* Ending a session leaves nothing open, armed, queued or in flight.
LEMMA EndSessionEffect ==
    ASSUME Core, status # "closed", NEW inf, NEW q, NEW res \in ResultMap,
           NEW why \in Reasons, EndSession(inf, q, res, why),
           running' \in BOOLEAN
    PROVE  Core'
<1>1. result' \in ResultMap
  <2>1. (IF why = "resigned" THEN "closed" ELSE "lost") \in Results
    BY Zenon DEF Results
  <2> QED BY <2>1, ReplyAllType, Zenon DEF EndSession
<1>2. lost = <<>>
  BY Zenon DEF Core, LossPublishedOnce
<1>3. lost' = IF why = "resigned" THEN <<>> ELSE <<why>>
  BY <1>2 DEF EndSession
<1>4. SessionType'
  <2>1. <<>> \in Seq(Calls) /\ <<>> \in Seq(Reasons) /\ <<why>> \in Seq(Reasons)
    OBVIOUS
  <2>2. lost' \in Seq(Reasons)
    BY <1>3, <2>1, Zenon
  <2>3. status' \in Statuses /\ reason' \in Reasons \cup {"none"}
    BY Zenon DEF EndSession, Statuses
  <2>4. keepAliveAt' \in Timer(KeepAliveInterval) /\ inFlight' \subseteq Pending
    BY Zenon DEF EndSession, Timer
  <2>5. open' \in BOOLEAN /\ queued' \in Seq(Calls)
    BY <2>1, Zenon DEF EndSession
  <2> QED BY <1>1, <2>2, <2>3, <2>4, <2>5, Zenon DEF SessionType
<1>5. (Up /\ Down /\ Closed /\ SlotNeverIdle)'
  BY Zenon DEF EndSession, Up, Down, Closed, SlotNeverIdle
<1>6. LossPublishedOnce'
  BY <1>3, Zenon DEF EndSession, LossPublishedOnce
<1> QED BY <1>4, <1>5, <1>6, Zenon DEF Core

\* A session that goes on is sound if it is given sound values.
LEMMA ContinueEffect ==
    ASSUME Core, status # "closed", running', NEW st,
           NEW k \in Timer(KeepAliveInterval), NEW inf \in SUBSET Pending,
           NEW q \in Seq(Calls), NEW res \in ResultMap,
           Sound(st, k, inf),
           q # <<>> => \E p \in inf : p.kind = "caller",
           Continue(st, k, inf, q, res), running' \in BOOLEAN
    PROVE  Core'
<1>1. SessionType'
  BY Zenon DEF Continue, Core, SessionType, Sound, Statuses
<1>2. (Up /\ Down /\ Closed)'
  BY Zenon DEF Continue, Up, Down, Closed, Sound
<1>3. SlotNeverIdle'
  BY Zenon DEF Continue, SlotNeverIdle, ApplicationInFlight, OfKind
<1>4. LossPublishedOnce'
  BY Zenon DEF Continue, LossPublishedOnce, Core, Sound
<1> QED BY <1>1, <1>2, <1>3, <1>4, Zenon DEF Core

\* What start pushes is a Pending.
LEMMA NewPendingType ==
    ASSUME NEW inf, NEW kind \in {"caller"} \cup ControlOps,
           NEW who \in Calls \cup {NoCall}, NEW type,
           NEW p \in NewPendings(inf, kind, who, type)
    PROVE  /\ p \in Pending
           /\ p.kind = kind
           /\ p.owner = who
           /\ p.deadline = ExchangeTimeout
<1>1. PICK t \in Tokens, a \in AckTimeouts :
        p = [token |-> t, kind |-> kind, owner |-> who, retransmissions |-> 0,
             timeout |-> a, retryAt |-> IF type = "con" THEN a ELSE Unset,
             deadline |-> ExchangeTimeout]
  BY DEF NewPendings
<1>2. a \in Nat /\ ExchangeTimeout \in 0..ExchangeTimeout
  BY AckTimeoutsAssumption, TimeoutAssumption
<1> QED BY <1>1, <1>2, Zenon DEF Pending

\* Starting queued requests keeps a sound session sound: the slot is filled by
\* one application exchange, or the queue is emptied, or the session ends.
LEMMA SendQueuedEffect ==
    ASSUME Core, OuterType, status # "closed", running', running' \in BOOLEAN,
           NEW st, NEW inf \in SUBSET Pending, NEW q \in Seq(Calls),
           NEW res \in ResultMap, Sound(st, keepAliveAt, inf),
           SendQueued(st, inf, q, res)
    PROVE  Core'
<1>k. keepAliveAt \in Timer(KeepAliveInterval)
  BY Zenon DEF Core, SessionType
<1>1. CASE /\ ApplicationInFlight(inf) # {} \/ q = <<>>
           /\ Continue(st, keepAliveAt, inf, q, res)
  <2>1. q # <<>> => \E p \in inf : p.kind = "caller"
    BY <1>1, Zenon DEF ApplicationInFlight, OfKind
  <2> QED BY <1>1, <1>k, <2>1, ContinueEffect, Zenon
<1>2. ASSUME ApplicationInFlight(inf) = {}, NEW n \in 1..Len(q),
             op[q[n]] \notin Immediate,
             NEW p \in NewPendings(inf, "caller", q[n], op[q[n]]),
             Continue(st, keepAliveAt, inf \cup {p}, SubSeq(q, n + 1, Len(q)),
                      ReplySent(res, q, n - 1))
      PROVE  Core'
  <2>1. p \in Pending /\ p.kind = "caller"
    BY <1>2, NewPendingType
  <2>2. \A o \in inf : o.kind # "caller"
    BY <1>2, Zenon DEF ApplicationInFlight, OfKind
  <2>3. Sound(st, keepAliveAt, inf \cup {p})
    BY <2>1, <2>2, Zenon DEF Sound
  <2>4. SubSeq(q, n + 1, Len(q)) \in Seq(Calls)
    BY <1>2
  <2>5. ReplySent(res, q, n - 1) \in ResultMap
    BY ReplySentType, Zenon
  <2> QED BY <1>2, <1>k, <2>1, <2>3, <2>4, <2>5, ContinueEffect, Zenon
<1>3. ASSUME NEW n \in 1..Len(q),
             EndSession(inf, SubSeq(q, n + 1, Len(q)),
                        Reply(ReplySent(res, q, n - 1), q[n], "io"),
                        "transportFailed")
      PROVE  Core'
  <2>1. Reply(ReplySent(res, q, n - 1), q[n], "io") \in ResultMap
    BY ReplySentType, ReplyType, Zenon DEF Results
  <2> QED BY <1>3, <2>1, EndSessionEffect, Zenon DEF Reasons
<1>4. ASSUME NEW n \in 1..Len(q),
             Continue(st, keepAliveAt, inf, <<>>, ReplySent(res, q, n))
      PROVE  Core'
  <2>1. ReplySent(res, q, n) \in ResultMap /\ <<>> \in Seq(Calls)
    BY ReplySentType
  <2> QED BY <1>4, <1>k, <2>1, ContinueEffect, Zenon
<1> QED BY <1>1, <1>2, <1>3, <1>4, Zenon DEF SendQueued

\* Starting a session-control exchange is sound if the session with it is.
LEMMA StartControlEffect ==
    ASSUME Core, status # "closed", running', running' \in BOOLEAN,
           NEW st, NEW k \in Timer(KeepAliveInterval), NEW kind \in ControlOps,
           NEW who \in Calls \cup {NoCall},
           \A p \in Pending : p.kind = kind /\ p.deadline = ExchangeTimeout =>
                Sound(st, k, inFlight \cup {p}),
           StartControl(st, k, kind, who)
    PROVE  Core'
<1>1. ASSUME NEW p \in NewPendings(inFlight, kind, who, "con"),
             Continue(st, k, inFlight \cup {p}, queued, result)
      PROVE  Core'
  <2>0. kind \in {"caller"} \cup ControlOps
    BY Zenon
  <2>1. p \in Pending /\ p.kind = kind /\ p.deadline = ExchangeTimeout
    BY <1>1, <2>0, NewPendingType
  <2>2. inFlight \cup {p} \in SUBSET Pending
    BY <2>1, Zenon DEF Core, SessionType
  <2>3. queued # <<>> => \E o \in inFlight \cup {p} : o.kind = "caller"
    BY Zenon DEF Core, SlotNeverIdle, ApplicationInFlight, OfKind
  <2>4. queued \in Seq(Calls) /\ result \in ResultMap
    BY Zenon DEF Core, SessionType
  <2> QED BY <1>1, <2>1, <2>2, <2>3, <2>4, ContinueEffect, Zenon
<1>2. CASE EndSession(inFlight, queued, Reply(result, who, "io"), "transportFailed")
  <2>1. Reply(result, who, "io") \in ResultMap
    BY ReplyType, Zenon DEF Results, Core, SessionType
  <2> QED BY <1>2, <2>1, EndSessionEffect, Zenon DEF Reasons
<1> QED BY <1>1, <1>2, Zenon DEF StartControl

\* Completing an exchange: an answered petition or keep-alive arms the timer
\* beyond every outstanding deadline, everything else shrinks what is held.
LEMMA CompleteEffect ==
    ASSUME Core, OuterType, open, status # "closed", running',
           running' \in BOOLEAN, NEW p \in inFlight, NEW out \in Outcomes,
           Complete(p, out)
    PROVE  Core'
<1> DEFINE rest == inFlight \ {p}
           Told(r) == Reply(result, p.owner, r)
<1>1. /\ Sound(status, keepAliveAt, inFlight)
      /\ inFlight \subseteq Pending /\ rest \in SUBSET Pending
      /\ queued \in Seq(Calls)
      /\ keepAliveAt \in Timer(KeepAliveInterval)
  BY Zenon DEF Core, SessionType, Up
<1>2. \A r \in Results : Told(r) \in ResultMap
  BY ReplyType, Zenon DEF Core, SessionType
<1>3. Failure(out) \in Results
  BY Zenon DEF Failure, Results
<1>4. p.kind # "caller" => (queued # <<>> => \E o \in rest : o.kind = "caller")
  BY Zenon DEF Core, SlotNeverIdle, ApplicationInFlight, OfKind
<1>5. ScheduledKeepAlive \in Timer(KeepAliveInterval)
  BY <1>1, TimeoutAssumption DEF ScheduledKeepAlive, Timer
<1> HIDE DEF Told, rest
<1>6. CASE p.kind = "caller"
  <2>1. Sound(status, keepAliveAt, rest)
    BY <1>1, <1>6, Zenon DEF Sound, rest
  <2>2. (IF out \in Answers THEN "ok" ELSE Failure(out)) \in Results
    BY <1>3, Zenon DEF Results
  <2>3. Told(IF out \in Answers THEN "ok" ELSE Failure(out)) \in ResultMap
    BY <1>2, <2>2, Zenon
  <2>4. SendQueued(status, rest, queued,
                   Told(IF out \in Answers THEN "ok" ELSE Failure(out)))
    BY <1>6, Zenon DEF Complete, Told, rest
  <2> QED BY <1>1, <2>1, <2>3, <2>4, SendQueuedEffect, Zenon
<1>7. CASE p.kind = "petition"
  <2>1. status = "petitioning" /\ keepAliveAt = Unset
    BY <1>1, <1>7, Zenon DEF Sound
  <2>2. \A o \in rest : o.kind \notin {"petition", "keepalive", "resign"}
    BY <1>1, <1>7, <2>1, Zenon DEF Sound, rest
  <2>3. CASE out = "accept"
    <3>1. Sound("active", ScheduledKeepAlive, rest)
      BY <1>1, <2>1, <2>2, TimeoutAssumption
      DEF Sound, rest, ScheduledKeepAlive, Unset
    <3>2. Continue("active", ScheduledKeepAlive, rest, queued, Told("ok"))
      BY <1>7, <2>3, Zenon DEF Complete, Told, rest
    <3>3. Told("ok") \in ResultMap
      BY <1>2, Zenon DEF Results
    <3> QED BY <1>1, <1>4, <1>5, <1>7, <3>1, <3>2, <3>3, ContinueEffect, Zenon
  <2>4. CASE out # "accept"
    <3>1. Sound("connected", keepAliveAt, rest)
      BY <1>1, <2>1, <2>2, Zenon DEF Sound, rest
    <3>2. Continue("connected", keepAliveAt, rest, queued, Told(Failure(out)))
      BY <1>7, <2>4, Zenon DEF Complete, Told, rest
    <3> QED BY <1>1, <1>2, <1>3, <1>4, <1>7, <3>1, <3>2, ContinueEffect, Zenon
  <2> QED BY <2>3, <2>4, Zenon
<1>8. CASE p.kind = "keepalive"
  <2>1. status = "active" /\ keepAliveAt = Unset
    BY <1>1, <1>8, Zenon DEF Sound
  <2>2. \A o \in rest : o.kind \notin {"petition", "keepalive"}
    BY <1>1, <1>8, <2>1, Zenon DEF Sound, rest
  <2>3. CASE out = "accept"
    <3>1. \A o \in rest : o.deadline \in 0..ExchangeTimeout
      BY <1>1, Zenon DEF rest, Pending
    <3>2. Sound(status, ScheduledKeepAlive, rest)
      <4>1. CASE Automatic
        <5>1. ScheduledKeepAlive = KeepAliveInterval
          BY <4>1, Zenon DEF ScheduledKeepAlive
        <5>2. \A o \in rest : o.deadline < KeepAliveInterval
          BY <3>1, TimeoutAssumption
        <5>3. KeepAliveInterval # Unset
          BY TimeoutAssumption DEF Unset
        <5> QED BY <1>1, <2>1, <2>2, <5>1, <5>2, <5>3, Zenon DEF Sound, rest
      <4>2. CASE ~Automatic
        BY <1>1, <2>1, <2>2, <4>2, Zenon DEF Sound, rest, ScheduledKeepAlive
      <4> QED BY <4>1, <4>2, Zenon
    <3>3. Continue(status, ScheduledKeepAlive, rest, queued, Told("ok"))
      BY <1>8, <2>3, Zenon DEF Complete, Told, rest
    <3>4. Told("ok") \in ResultMap
      BY <1>2 DEF Results
    <3> QED BY <1>1, <1>4, <1>5, <1>8, <3>2, <3>3, <3>4, ContinueEffect, Zenon
  <2>4. CASE out \in {"reject", "pending"}
    <3> DEFINE why == IF out = "reject" THEN "keepAliveRejected"
                                        ELSE "keepAlivePending"
    <3>1. EndSession(rest, queued, Told("ok"), why)
      BY <1>8, <2>4, Zenon DEF Complete, Told, rest
    <3>2. why \in Reasons /\ Told("ok") \in ResultMap
      BY <1>2, Zenon DEF Reasons, Results
    <3> HIDE DEF why
    <3> QED BY <3>1, <3>2, EndSessionEffect, Zenon
  <2>5. CASE out \in {"malformed", "reset", "timeout"}
    <3>1. EndSession(rest, queued, Told(Failure(out)), "keepAliveFailed")
      BY <1>8, <2>5, Zenon DEF Complete, Told, rest
    <3> QED BY <1>2, <1>3, <3>1, EndSessionEffect, Zenon DEF Reasons
  <2> QED BY <2>3, <2>4, <2>5, Zenon DEF Outcomes, Answers
<1>9. CASE p.kind = "resign"
  <2> DEFINE r == IF out \in {"accept", "reject"} THEN "ok" ELSE Failure(out)
  <2>1. EndSession(rest, queued, Told(r), "resigned")
    BY <1>9, Zenon DEF Complete, Told, rest
  <2>2. r \in Results
    BY <1>3, Zenon DEF Results
  <2> HIDE DEF r
  <2> QED BY <1>2, <2>1, <2>2, EndSessionEffect, Zenon DEF Reasons
<1>10. p.kind \in {"caller", "petition", "keepalive", "resign"}
  BY <1>1, Zenon DEF Pending, ControlOps
<1> QED BY <1>6, <1>7, <1>8, <1>9, <1>10, Zenon

-----------------------------------------------------------------------------
(* Core is inductive: one lemma per group of actions. *)

\* A step that leaves session, exchanges and replies alone.
LEMMA IdleEffect ==
    ASSUME Core, UNCHANGED <<session, exchanges>>, result' \in ResultMap,
           running' = running
    PROVE  Core'
<1>1. SessionType'
  BY Zenon DEF Core, SessionType, session, exchanges
<1>2. (Up /\ Down /\ Closed)'
  BY Zenon DEF Core, Up, Down, Closed, session, exchanges, Sound
<1>3. (SlotNeverIdle /\ LossPublishedOnce)'
  BY Zenon DEF Core, SlotNeverIdle, LossPublishedOnce, session, exchanges,
         ApplicationInFlight, OfKind
<1> QED BY <1>1, <1>2, <1>3, Zenon DEF Core

\* A refusal leaves the session and its exchanges alone.
LEMMA RefuseEffect ==
    ASSUME Core, running' = running, NEW c, NEW r \in Results, Refuse(c, r)
    PROVE  Core'
<1>1. result' \in ResultMap
  BY ReplyType, Zenon DEF Refuse, Core, SessionType
<1> QED BY <1>1, IdleEffect, Zenon DEF Refuse

\* Receiving, or a due timer, presupposes an open link.
LEMMA InFlightMeansOpen ==
    ASSUME Core, inFlight # {} \/ queued # <<>> \/ keepAliveAt # Unset
    PROVE  open /\ running /\ status # "closed"
BY Zenon DEF Core, Up, Down, Sound, SessionType

\* handle_command and handles_dropped keep the core invariant.
LEMMA CommandsKeepCore ==
    ASSUME Core, OuterType, HandleCommand
    PROVE  Core'
<1>t. /\ inFlight \in SUBSET Pending
      /\ queued \in Seq(Calls)
      /\ keepAliveAt \in Timer(KeepAliveInterval)
      /\ result \in ResultMap
      /\ open \in BOOLEAN
  BY Zenon DEF Core, SessionType
<1>u. Unset \in Timer(KeepAliveInterval)
  BY Zenon DEF Timer
<1>1. ASSUME NEW c \in Calls, ExchangeCommand(c)
      PROVE  Core'
  <2>1. running /\ running' = running /\ running' /\ running' \in BOOLEAN
        /\ status # "closed"
    BY <1>1, Zenon DEF ExchangeCommand, Takes, CanTakeCommand, InLoop, Core, SessionType
  <2>2. CASE Refuse(c, "refused") \/ Refuse(c, "unopened")
    BY <2>1, <2>2, RefuseEffect, Zenon DEF Results
  <2>3. CASE SendQueued(IF open THEN status ELSE "connected", inFlight,
                        Append(queued, c), result)
    <3> DEFINE st == IF open THEN status ELSE "connected"
    <3>1. Sound(st, keepAliveAt, inFlight)
      <4>1. CASE open
        BY <4>1, Zenon DEF Core, Up
      <4>2. CASE ~open
        BY <4>2, Zenon DEF Core, Down, Sound
      <4> QED BY <4>1, <4>2, Zenon
    <3>2. Append(queued, c) \in Seq(Calls)
      BY <1>t
    <3>3. SendQueued(st, inFlight, Append(queued, c), result)
      BY <2>3, Zenon
    <3> HIDE DEF st
    <3> QED BY <1>t, <2>1, <3>1, <3>2, <3>3, SendQueuedEffect, Zenon
  <2> QED BY <1>1, <2>2, <2>3, Zenon DEF ExchangeCommand
<1>2. ASSUME NEW c \in Calls, WithdrawCommand(c)
      PROVE  Core'
  <2>1. running /\ running' = running /\ running' /\ running' \in BOOLEAN
        /\ status # "closed"
    BY <1>2, Zenon DEF WithdrawCommand, Takes, CanTakeCommand, InLoop, Core, SessionType
  <2>2. ASSUME NEW i \in 1..Len(queued),
               SendQueued(status, inFlight, RemoveAt(queued, i), result)
        PROVE  Core'
    <3>1. open /\ Sound(status, keepAliveAt, inFlight)
      BY <1>t, InFlightMeansOpen DEF Core, Up
    <3>2. RemoveAt(queued, i) \in Seq(Calls)
      BY <1>t DEF RemoveAt
    <3> QED BY <1>t, <2>1, <2>2, <3>1, <3>2, SendQueuedEffect, Zenon
  <2>3. CASE /\ HeldByCaller(c) # {}
             /\ SendQueued(status, inFlight \ HeldByCaller(c), queued, result)
    <3>1. open /\ Sound(status, keepAliveAt, inFlight)
      BY <2>3, InFlightMeansOpen, Zenon DEF Core, Up, HeldByCaller
    <3>2. Sound(status, keepAliveAt, inFlight \ HeldByCaller(c))
      BY <3>1, Zenon DEF Sound, HeldByCaller
    <3>3. inFlight \ HeldByCaller(c) \in SUBSET Pending
      BY <1>t, Zenon
    <3> QED BY <1>t, <2>1, <2>3, <3>2, <3>3, SendQueuedEffect, Zenon
  <2>4. CASE UNCHANGED <<session, exchanges, result>>
    BY <1>t, <2>1, <2>4, IdleEffect, Zenon
  <2> QED BY <1>2, <2>2, <2>3, <2>4, Zenon DEF WithdrawCommand
<1>3. ASSUME NEW c \in Calls, PetitionCommand(c)
      PROVE  Core'
  <2>1. running /\ running' = running /\ running' /\ running' \in BOOLEAN
        /\ status # "closed"
    BY <1>3, Zenon DEF PetitionCommand, Takes, CanTakeCommand, InLoop, Core, SessionType
  <2>2. CASE Refuse(c, "refused") \/ Refuse(c, "unopened")
    BY <2>1, <2>2, RefuseEffect, Zenon DEF Results
  <2>3. ASSUME status \in {"connected", "idle"}
        PROVE  /\ keepAliveAt = Unset
               /\ \A p \in inFlight : p.kind \notin {"petition", "keepalive", "resign"}
               /\ \A p, q \in inFlight : p.kind = q.kind => p = q
               /\ queued # <<>> => \E p \in inFlight : p.kind = "caller"
    BY <2>3, Zenon DEF Core, Up, Down, Sound, SlotNeverIdle, ApplicationInFlight, OfKind
  <2>4. CASE /\ status \in {"connected", "idle"}
             /\ Continue("connected", keepAliveAt, inFlight, queued,
                         Reply(result, c, "failed"))
    <3>1. Sound("connected", keepAliveAt, inFlight)
      BY <2>3, <2>4, Zenon DEF Sound
    <3>2. Reply(result, c, "failed") \in ResultMap
      BY <1>t, ReplyType, Zenon DEF Results
    <3> QED BY <1>t, <2>1, <2>3, <2>4, <3>1, <3>2, ContinueEffect, Zenon
  <2>5. CASE /\ status \in {"connected", "idle"}
             /\ StartControl("petitioning", keepAliveAt, "petition", c)
    <3>1. \A p \in Pending : p.kind = "petition" /\ p.deadline = ExchangeTimeout =>
                Sound("petitioning", keepAliveAt, inFlight \cup {p})
      BY <2>3, <2>5, Zenon DEF Sound
    <3> QED BY <1>t, <2>1, <2>5, <3>1, StartControlEffect, Zenon DEF ControlOps
  <2> QED BY <1>3, <2>2, <2>4, <2>5, Zenon DEF PetitionCommand
<1>4. ASSUME NEW c \in Calls, KeepAliveCommand(c)
      PROVE  Core'
  <2>1. running /\ running' = running /\ running' /\ running' \in BOOLEAN
        /\ status # "closed"
    BY <1>4, Zenon DEF KeepAliveCommand, Takes, CanTakeCommand, InLoop, Core, SessionType
  <2>2. CASE Refuse(c, "refused")
    BY <2>1, <2>2, RefuseEffect, Zenon DEF Results
  <2>3. CASE /\ status = "active" /\ ~Resigning /\ ~KeepAliveOutstanding
             /\ StartControl(status, Unset, "keepalive", c)
    <3>1. open /\ Sound(status, keepAliveAt, inFlight)
      BY <2>1, <2>3, Zenon DEF Core, Up, Down
    <3>2. \A p \in inFlight : p.kind # "keepalive"
      BY <2>3, Zenon DEF KeepAliveOutstanding, OfKind
    <3>3. \A p \in Pending : p.kind = "keepalive" /\ p.deadline = ExchangeTimeout =>
                Sound(status, Unset, inFlight \cup {p})
      BY <2>3, <3>1, <3>2, Zenon DEF Sound
    <3> QED BY <1>t, <1>u, <2>1, <2>3, <3>1, <3>3, StartControlEffect, Zenon DEF ControlOps
  <2> QED BY <1>4, <2>2, <2>3, Zenon DEF KeepAliveCommand
<1>5. ASSUME NEW who \in Calls \cup {NoCall}, Resign(who), ~Resigning,
             running, running' = running, status # "closed"
      PROVE  Core'
  <2>1. CASE EndSession(inFlight, queued, Reply(result, who, "ok"), "resigned")
    <3>1. Reply(result, who, "ok") \in ResultMap
      BY <1>t, ReplyType, Zenon DEF Results
    <3> QED BY <1>5, <2>1, <3>1, EndSessionEffect, Zenon DEF Reasons, Core, SessionType
  <2>2. CASE status = "active" /\ StartControl(status, Unset, "resign", who)
    <3>1. open /\ Sound(status, keepAliveAt, inFlight)
      BY <1>5, <2>2, Zenon DEF Core, Up, Down
    <3>2. \A p \in inFlight : p.kind # "resign"
      BY <1>5, Zenon DEF Resigning, OfKind
    <3>3. \A p \in Pending : p.kind = "resign" /\ p.deadline = ExchangeTimeout =>
                Sound(status, Unset, inFlight \cup {p})
      BY <2>2, <3>1, <3>2, Zenon DEF Sound
    <3>4. running' \in BOOLEAN
      BY <1>5, Zenon DEF Core, SessionType
    <3> QED BY <1>u, <1>5, <2>2, <3>1, <3>3, <3>4, StartControlEffect, Zenon DEF ControlOps
  <2> QED BY <1>5, <2>1, <2>2, Zenon DEF Resign
<1>6. ASSUME NEW c \in Calls, ResignCommand(c)
      PROVE  Core'
  <2>1. running /\ running' = running /\ status # "closed"
    BY <1>6, Zenon DEF ResignCommand, Takes, CanTakeCommand, InLoop
  <2>2. CASE Refuse(c, "refused")
    BY <2>1, <2>2, RefuseEffect, Zenon DEF Results
  <2> QED BY <1>5, <1>6, <2>1, <2>2, Zenon DEF ResignCommand
<1>7. CASE HandlesDropped
  <2>1. running /\ running' = running /\ status # "closed"
    BY <1>7, Zenon DEF HandlesDropped, CanTakeCommand, InLoop
  <2>2. CASE UNCHANGED <<session, exchanges, result>>
    BY <1>t, <2>1, <2>2, IdleEffect, Zenon
  <2> QED BY <1>5, <1>7, <2>1, <2>2, Zenon DEF HandlesDropped
<1> QED BY <1>1, <1>2, <1>3, <1>4, <1>6, <1>7, Zenon DEF HandleCommand

\* Replacing an exchange by one that differs only in its schedule.
LEMMA RescheduleEffect ==
    ASSUME Core, NEW p \in inFlight, NEW o \in Pending, o.kind = p.kind,
           o.deadline = p.deadline, inFlight' = (inFlight \ {p}) \cup {o},
           UNCHANGED <<session, queued, result, running>>
    PROVE  Core'
<1>1. SessionType'
  BY Zenon DEF Core, SessionType, session
<1>2. open /\ Sound(status, keepAliveAt, inFlight) /\ running
  BY InFlightMeansOpen, Zenon DEF Core, Up
<1>3. Sound(status, keepAliveAt, (inFlight \ {p}) \cup {o})
  BY <1>2, Zenon DEF Sound
<1>4. (Up /\ Down)'
  BY <1>2, <1>3, Zenon DEF Up, Down, session
<1>5. SlotNeverIdle'
  BY Zenon DEF Core, SlotNeverIdle, ApplicationInFlight, OfKind
<1>6. (Closed /\ LossPublishedOnce)'
  BY Zenon DEF Core, Closed, LossPublishedOnce, session
<1> QED BY <1>1, <1>4, <1>5, <1>6, Zenon DEF Core

\* handle_datagram and receive_failed keep the core invariant.
LEMMA ReceiveKeepsCore ==
    ASSUME Core, OuterType, Receive
    PROVE  Core'
<1>t. /\ inFlight \in SUBSET Pending
      /\ result \in ResultMap
      /\ running \in BOOLEAN
  BY Zenon DEF Core, SessionType
<1>u. open /\ running /\ status # "closed"
  BY Zenon DEF Receive, ReceiveAnswer, AnswerAckFails, ReceiveAck, TransportFails,
         PeerCloses, CanReceive, InLoop
<1>v. running' = running
  BY Zenon DEF Receive, ReceiveAnswer, AnswerAckFails, ReceiveAck, TransportFails,
         PeerCloses, outside
<1>1. ASSUME NEW p \in inFlight, NEW out \in Answers \cup {"reset"},
             ReceiveAnswer(p, out)
      PROVE  Core'
  <2>1. out \in Outcomes
    BY Zenon DEF Outcomes
  <2> QED BY <1>t, <1>u, <1>v, <1>1, <2>1, CompleteEffect, Zenon DEF ReceiveAnswer
<1>2. ASSUME NEW p \in inFlight, AnswerAckFails(p)
      PROVE  Core'
  <2>1. Reply(result, p.owner, "closed") \in ResultMap
    BY <1>t, ReplyType, Zenon DEF Results
  <2> QED BY <1>t, <1>u, <1>v, <1>2, <2>1, EndSessionEffect, Zenon
          DEF AnswerAckFails, Reasons
<1>3. ASSUME NEW p \in inFlight, ReceiveAck(p)
      PROVE  Core'
  <2>1. [p EXCEPT !.retryAt = Unset] \in Pending
    BY <1>t, Zenon DEF Pending
  <2>2. /\ [p EXCEPT !.retryAt = Unset].kind = p.kind
        /\ [p EXCEPT !.retryAt = Unset].deadline = p.deadline
    BY <1>t, Zenon DEF Pending
  <2> QED BY <1>v, <1>3, <2>1, <2>2, RescheduleEffect, Zenon DEF ReceiveAck
<1>4. CASE TransportFails
  BY <1>t, <1>u, <1>v, <1>4, EndSessionEffect, Zenon DEF TransportFails, Reasons
<1>5. CASE PeerCloses
  <2>1. CASE EndSession(inFlight, queued, result, "peerClosed")
    BY <1>t, <1>u, <1>v, <2>1, EndSessionEffect, Zenon DEF Reasons
  <2>2. CASE /\ status # "active"
             /\ open' = FALSE
             /\ status' = "idle"
             /\ inFlight' = {}
             /\ queued' = <<>>
             /\ result' = ReplyAll(result, Owners(inFlight, queued), "lost")
             /\ UNCHANGED <<reason, keepAliveAt, lost>>
    <3>1. keepAliveAt = Unset
      BY <1>u, <2>2, Zenon DEF Core, Up, Sound
    <3>2. result' \in ResultMap
      BY <1>t, <2>2, ReplyAllType, Zenon DEF Results
    <3>0. <<>> \in Seq(Calls)
      OBVIOUS
    <3>3. queued' \in Seq(Calls) /\ open' \in BOOLEAN
      BY <2>2, <3>0, Zenon
    <3>4. SessionType'
      BY <1>v, <2>2, <3>2, <3>3, Zenon DEF Core, SessionType, Statuses
    <3>5. (Up /\ Down /\ Closed /\ SlotNeverIdle)'
      BY <2>2, <3>1, Zenon DEF Up, Down, Closed, SlotNeverIdle
    <3>6. LossPublishedOnce'
      BY <1>u, <2>2, Zenon DEF Core, LossPublishedOnce
    <3> QED BY <3>4, <3>5, <3>6, Zenon DEF Core
  <2> QED BY <1>5, <2>1, <2>2, Zenon DEF PeerCloses
<1> QED BY <1>1, <1>2, <1>3, <1>4, <1>5, Zenon DEF Receive

\* run_timers keeps the core invariant.
LEMMA TimersKeepCore ==
    ASSUME Core, OuterType, RunTimers
    PROVE  Core'
<1>t. /\ inFlight \in SUBSET Pending
      /\ queued \in Seq(Calls)
      /\ result \in ResultMap
      /\ running \in BOOLEAN
  BY Zenon DEF Core, SessionType
<1>v. running' = running
  BY Zenon DEF RunTimers, Expire, Retransmit, KeepAliveTimer, outside
<1>1. ASSUME NEW p \in inFlight, Expire(p)
      PROVE  Core'
  <2>1. open /\ running /\ status # "closed"
    BY InFlightMeansOpen, Zenon
  <2> QED BY <1>t, <1>v, <1>1, <2>1, CompleteEffect, Zenon DEF Expire, Outcomes
<1>2. ASSUME NEW p \in inFlight, Retransmit(p)
      PROVE  Core'
  <2>1. CASE EndSession(inFlight, queued, result, "transportFailed")
    BY <1>t, <1>v, <1>2, <2>1, EndSessionEffect, Zenon DEF Retransmit, InLoop, Reasons
  <2>2. CASE /\ inFlight' = (inFlight \ {p}) \cup {Retransmitted(p)}
             /\ UNCHANGED <<session, queued, result>>
    <3>1. p \in Pending /\ p.timeout \in Nat /\ p.retransmissions \in Nat
      BY <1>t, Zenon DEF Pending
    <3>2. 2 * p.timeout \in Nat /\ p.retransmissions + 1 \in Nat
      BY <3>1
    <3>3. Retransmitted(p) \in Pending
      BY <3>1, <3>2, Zenon DEF Retransmitted, Pending
    <3>4. Retransmitted(p).kind = p.kind /\ Retransmitted(p).deadline = p.deadline
      BY <3>1, Zenon DEF Retransmitted, Pending
    <3> QED BY <1>v, <2>2, <3>3, <3>4, RescheduleEffect, Zenon
  <2> QED BY <1>2, <2>1, <2>2, Zenon DEF Retransmit
<1>3. CASE KeepAliveTimer
  <2>1. keepAliveAt # Unset
    BY <1>3 DEF KeepAliveTimer, Unset
  <2>2. open /\ running /\ status = "active" /\ status # "closed"
        /\ Sound(status, keepAliveAt, inFlight)
    BY <2>1, InFlightMeansOpen, Zenon DEF Core, Up, Sound
  <2>3. StartControl(status, Unset, "keepalive", NoCall)
    BY <1>3, <2>2, Zenon DEF KeepAliveTimer
  <2>4. \A p \in Pending : p.kind = "keepalive" /\ p.deadline = ExchangeTimeout =>
              Sound(status, Unset, inFlight \cup {p})
    BY <2>1, <2>2, Zenon DEF Sound
  <2>5. Unset \in Timer(KeepAliveInterval) /\ NoCall \in Calls \cup {NoCall}
    BY Zenon DEF Timer
  <2> QED BY <1>t, <1>v, <2>2, <2>3, <2>4, <2>5, StartControlEffect, Zenon DEF ControlOps
<1> QED BY <1>1, <1>2, <1>3, Zenon DEF RunTimers

\* An exchange that has aged by a tick is still a Pending.
LEMMA AgedType ==
    ASSUME NEW p \in Pending
    PROVE  /\ Aged(p) \in Pending
           /\ Aged(p).kind = p.kind
           /\ Aged(p).deadline = Lowered(p.deadline)
           /\ p.deadline \in Nat
<1>1. p.deadline \in 0..ExchangeTimeout /\ p.retryAt \in {Unset} \cup Nat
  BY Zenon DEF Pending
<1>2. /\ Lowered(p.deadline) \in 0..ExchangeTimeout
      /\ Lowered(p.retryAt) \in {Unset} \cup Nat
      /\ p.deadline \in Nat
  BY <1>1, TimeoutAssumption DEF Lowered, Unset
<1>3. Aged(p) \in Pending
  BY <1>2, Zenon DEF Aged, Pending
<1>4. Aged(p).kind = p.kind /\ Aged(p).deadline = Lowered(p.deadline)
  BY Zenon DEF Aged, Pending
<1> QED BY <1>2, <1>3, <1>4, Zenon

\* The passing of time keeps the core invariant.
LEMMA TickKeepsCore ==
    ASSUME Core, Tick
    PROVE  Core'
<1>t. /\ inFlight \in SUBSET Pending
      /\ keepAliveAt \in Timer(KeepAliveInterval)
      /\ KeepAliveInterval \in Nat /\ ExchangeTimeout \in Nat
  BY TimeoutAssumption, Zenon DEF Core, SessionType
<1>1. keepAliveAt > 0 \/ inFlight # {}
  BY Zenon DEF Tick
<1>2. open /\ running /\ Sound(status, keepAliveAt, inFlight)
  BY <1>1, InFlightMeansOpen DEF Core, Up, Unset
<1>a. keepAliveAt' = Lowered(keepAliveAt)
  BY Zenon DEF Tick
<1>3. inFlight' = {Aged(p) : p \in inFlight}
  BY Zenon DEF Tick
<1>4. /\ keepAliveAt' \in Timer(KeepAliveInterval)
      /\ keepAliveAt' # Unset <=> keepAliveAt # Unset
  <2>1. CASE keepAliveAt = Unset
    BY <1>a, <2>1 DEF Timer, Lowered, Unset
  <2>2. CASE keepAliveAt \in 0..KeepAliveInterval
    <3>1. Lowered(keepAliveAt) \in 0..KeepAliveInterval
      BY <1>t, <2>2 DEF Lowered
    <3> QED BY <1>a, <2>2, <3>1 DEF Timer, Unset
  <2> QED BY <1>t, <2>1, <2>2, Zenon DEF Timer
<1>5. \A p \in inFlight : /\ Aged(p) \in Pending
                          /\ Aged(p).kind = p.kind
                          /\ Aged(p).deadline = Lowered(p.deadline)
                          /\ p.deadline \in Nat
  BY <1>t, AgedType, Zenon
<1>6. SessionType'
  BY <1>3, <1>4, <1>5, Zenon DEF Core, SessionType, Tick, outside
<1>7. Sound(status, keepAliveAt', inFlight')
  <2>1. \A p, q \in inFlight' : p.kind = q.kind => p = q
    BY <1>2, <1>3, <1>5 DEF Sound
  <2>2. \A kind : (\E p \in inFlight' : p.kind = kind)
                    <=> (\E p \in inFlight : p.kind = kind)
    BY <1>3, <1>5, Zenon
  <2>3. \A p \in inFlight' : p.kind = "resign" /\ keepAliveAt' # Unset =>
            p.deadline = 0 \/ p.deadline < keepAliveAt'
    <3> SUFFICES ASSUME NEW p \in inFlight, p.kind = "resign", keepAliveAt # Unset
                 PROVE  \/ Lowered(p.deadline) = 0
                        \/ Lowered(p.deadline) < Lowered(keepAliveAt)
      BY <1>a, <1>3, <1>4, <1>5, Zenon
    <3>1. p.deadline = 0 \/ p.deadline < keepAliveAt
      BY <1>2, Zenon DEF Sound
    <3>2. p.deadline \in Nat /\ keepAliveAt \in Nat
      BY <1>t, <1>5 DEF Timer
    <3> QED BY <3>1, <3>2 DEF Lowered
  <2> QED BY <1>2, <1>4, <2>1, <2>2, <2>3, Zenon DEF Sound
<1>8. (Up /\ Down)'
  BY <1>2, <1>7, Zenon DEF Up, Down, Tick, outside
<1>9. SlotNeverIdle'
  BY <1>3, <1>5 DEF Core, SlotNeverIdle, ApplicationInFlight, OfKind, Tick
<1>10. (Closed /\ LossPublishedOnce)'
  BY Zenon DEF Core, Closed, LossPublishedOnce, Tick
<1> QED BY <1>6, <1>8, <1>9, <1>10, Zenon DEF Core

\* The end of the task and the steps of handles keep the core invariant.
LEMMA OthersKeepCore ==
    ASSUME Core, OuterType, Stop \/ TaskStops \/ Handle
    PROVE  Core'
<1>t. result \in ResultMap /\ <<>> \in Seq(Calls)
  BY DEF Core, SessionType
<1>1. CASE Stop
  <2>1. ~open /\ status = "closed" /\ running' = FALSE
    BY <1>1, Zenon DEF Stop, Core, Closed
  <2>2. result' \in ResultMap
    BY <1>t, <1>1, ReplyAllType, Zenon DEF Stop, Results
  <2>3. SessionType'
    BY <1>1, <2>1, <2>2, Zenon DEF Stop, Core, SessionType, session, exchanges
  <2>4. (Up /\ Down /\ Closed)'
    BY <1>1, <2>1, Zenon DEF Stop, Core, Up, Down, Closed, session, exchanges
  <2>5. (SlotNeverIdle /\ LossPublishedOnce)'
    BY <1>1, Zenon DEF Stop, Core, SlotNeverIdle, LossPublishedOnce, session, exchanges,
                ApplicationInFlight, OfKind
  <2> QED BY <2>3, <2>4, <2>5, Zenon DEF Core
<1>2. CASE TaskStops
  <2>1. result' \in ResultMap
    BY <1>t, <1>2, ReplyAllType, Zenon DEF TaskStops, Results
  <2>2. running' \in BOOLEAN /\ open' \in BOOLEAN /\ queued' \in Seq(Calls)
    BY <1>t, <1>2, Zenon DEF TaskStops
  <2>3. SessionType'
    BY <1>2, <2>1, <2>2, Zenon DEF TaskStops, Core, SessionType, Timer
  <2>4. (Up /\ Down /\ Closed /\ SlotNeverIdle)'
    BY <1>2, Zenon DEF TaskStops, Up, Down, Closed, SlotNeverIdle
  <2>5. LossPublishedOnce'
    BY <1>2, Zenon DEF TaskStops, Core, LossPublishedOnce
  <2> QED BY <2>3, <2>4, <2>5, Zenon DEF Core
<1>3. ASSUME NEW c \in Calls, NEW o \in CallOps, Call(c, o)
      PROVE  Core'
  <2>1. result' \in ResultMap
    <3>1. CASE running
      BY <1>t, <1>3, <3>1, Zenon DEF Call
    <3>2. CASE ~running
      BY <1>t, <1>3, <3>2, ReplyType, Zenon DEF Call, Results
    <3> QED BY <3>1, <3>2, Zenon
  <2> QED BY <1>3, <2>1, IdleEffect, Zenon DEF Call
<1>4. ASSUME NEW c \in Calls, StopWaiting(c)
      PROVE  Core'
  BY <1>t, <1>4, IdleEffect, Zenon DEF StopWaiting
<1>5. CASE DropHandles
  BY <1>t, <1>5, IdleEffect, Zenon DEF DropHandles
<1> QED BY <1>1, <1>2, <1>3, <1>4, <1>5, Zenon DEF Handle

\* The handle side and the command channel keep their types.
LEMMA OuterTypeKept ==
    ASSUME OuterType, Next
    PROVE  OuterType'
<1>1. ASSUME NEW do, NEW c, Takes(do, c)
      PROVE  OuterType'
  <2>1. Tail(commands) \in Seq(Command)
    BY <1>1 DEF Takes, OuterType
  <2> QED BY <1>1, <2>1, Zenon DEF Takes, OuterType, callers
<1>2. CASE HandleCommand
  <2>1. CASE HandlesDropped
    BY <2>1, Zenon DEF HandlesDropped, OuterType, callers
  <2> QED BY <1>1, <1>2, <2>1, Zenon
      DEF HandleCommand, ExchangeCommand, WithdrawCommand, PetitionCommand,
          KeepAliveCommand, ResignCommand
<1>3. ASSUME UNCHANGED outside
      PROVE  OuterType'
  BY <1>3, Zenon DEF outside, OuterType, callers
<1>4. CASE Receive \/ RunTimers \/ Tick
  <2>1. UNCHANGED outside
    BY <1>4, Zenon DEF Receive, ReceiveAnswer, AnswerAckFails, ReceiveAck, TransportFails,
                PeerCloses, RunTimers, Expire, Retransmit, KeepAliveTimer, Tick
  <2> QED BY <1>3, <2>1, Zenon
<1>5. CASE Stop \/ TaskStops
  <2>1. <<>> \in Seq(Command)
    OBVIOUS
  <2> QED BY <1>5, <2>1, Zenon DEF Stop, TaskStops, OuterType, callers
<1>6. ASSUME NEW c \in Calls, NEW o \in CallOps, Call(c, o)
      PROVE  OuterType'
  <2>1. Append(commands, [do |-> "call", call |-> c]) \in Seq(Command)
    BY DEF OuterType, Command
  <2>2. o \in AppOps \cup ControlOps \cup {"none"}
    BY CallOpsAssumption, Zenon
  <2> QED BY <1>6, <2>1, <2>2, Zenon DEF Call, OuterType
<1>7. ASSUME NEW c \in Calls, StopWaiting(c)
      PROVE  OuterType'
  <2>1. Append(commands, [do |-> "withdraw", call |-> c]) \in Seq(Command)
    BY DEF OuterType, Command
  <2> QED BY <1>7, <2>1, Zenon DEF StopWaiting, OuterType
<1>8. CASE DropHandles
  BY <1>8, Zenon DEF DropHandles, OuterType, callers
<1> QED BY <1>2, <1>4, <1>5, <1>6, <1>7, <1>8, Zenon DEF Next, Handle

-----------------------------------------------------------------------------
(* Theorems *)

\* The inductive invariant behind the safety theorems below.
THEOREM CoreInvariant == Spec => [](Core /\ OuterType)
<1>1. Init => Core /\ OuterType
  <2> SUFFICES ASSUME Init PROVE Core /\ OuterType
    BY Zenon
  <2>1. <<>> \in Seq(Calls) /\ <<>> \in Seq(Reasons) /\ <<>> \in Seq(Command)
    OBVIOUS
  <2>2. SessionType
    BY <2>1, Zenon DEF Init, SessionType, Statuses, Timer, ResultMap
  <2>3. Up /\ Down /\ Closed
    BY Zenon DEF Init, Up, Down, Closed, Sound
  <2>4. SlotNeverIdle /\ LossPublishedOnce
    BY Zenon DEF Init, SlotNeverIdle, LossPublishedOnce
  <2>5. OuterType
    BY <2>1, Zenon DEF Init, OuterType
  <2> QED BY <2>2, <2>3, <2>4, <2>5, Zenon DEF Core
<1>2. Core /\ OuterType /\ [Next]_vars => (Core /\ OuterType)'
  <2> SUFFICES ASSUME Core, OuterType, [Next]_vars
               PROVE  (Core /\ OuterType)'
    BY Zenon
  <2>1. CASE Next
    <3>1. Core'
      BY <2>1, CommandsKeepCore, ReceiveKeepsCore, TimersKeepCore, TickKeepsCore,
         OthersKeepCore, Zenon DEF Next
    <3> QED BY <2>1, <3>1, OuterTypeKept, Zenon
  <2>2. CASE UNCHANGED vars
    <3>1. Core'
      BY <2>2, IdleEffect, Zenon DEF vars, Core, SessionType
    <3>2. OuterType'
      BY <2>2, Zenon DEF vars, OuterType, callers
    <3> QED BY <3>1, <3>2, Zenon
  <2> QED BY <2>1, <2>2, Zenon
<1> QED BY <1>1, <1>2, PTL DEF Spec

\* Every variable of the driver and its handles keeps its type.
THEOREM TypeCorrect == Spec => []TypeOK
<1>1. Core /\ OuterType => TypeOK
  BY Zenon DEF Core, SessionType, OuterType, TypeOK, ResultMap
<1> QED BY <1>1, CoreInvariant, PTL

\* The published status always agrees with the link and the exchanges.
THEOREM StatusAgrees == Spec => []StatusMatchesExchanges
<1>1. Core => StatusMatchesExchanges
  BY Zenon DEF Core, SessionType, Up, Down, Sound, StatusMatchesExchanges, OfKind,
         Resigning, KeepAliveOutstanding
<1> QED BY <1>1, CoreInvariant, PTL

\* No second exchange of a kind is ever outstanding.
THEOREM OnePerKind == Spec => []OneExchangePerKind
<1>1. Core => OneExchangePerKind
  BY Zenon DEF Core, Up, Down, Sound, OneExchangePerKind
<1> QED BY <1>1, CoreInvariant, PTL

\* An active automatic session always has its next keep-alive ahead of it.
THEOREM KeepAliveKept == Spec => []KeepAliveNeverForgotten
<1>1. Core => KeepAliveNeverForgotten
  BY Zenon DEF Core, SessionType, Up, Down, Sound, KeepAliveNeverForgotten, OfKind,
         Resigning, KeepAliveOutstanding
<1> QED BY <1>1, CoreInvariant, PTL

\* Queued requests always have an application exchange to wait for.
THEOREM SlotUsed == Spec => []SlotNeverIdle
BY CoreInvariant, PTL DEF Core

\* A session loss is published exactly once, a resignation never.
THEOREM LossPublished == Spec => []LossPublishedOnce
BY CoreInvariant, PTL DEF Core

-----------------------------------------------------------------------------
(***************************************************************************)
(* What each driver step does to the calls the driver holds.  Handled(T, W)*)
(* says it: of the calls that were held, and those T just taken from the   *)
(* channel, each is still held, answered, or withdrawn (W), and no other   *)
(* reply changes.                                                          *)
(***************************************************************************)

\* Every call is held at most once.
Distinct(inf, q) ==
    /\ \A i, j \in 1..Len(q) : q[i] = q[j] => i = j
    /\ \A p, o \in inf : p.owner = o.owner /\ p.owner # NoCall => p = o
    /\ \A p \in inf, i \in 1..Len(q) : p.owner # q[i]

Consistent(inf, q, res) ==
    /\ Distinct(inf, q)
    /\ \A c \in Owners(inf, q) : res[c] = "none"

\* What an effect applied to (inf, q, res) does to the calls.
Settles(inf, q, res) ==
    /\ Consistent(inFlight', queued', result')
    /\ Owners(inFlight', queued') \subseteq Owners(inf, q)
    /\ \A c \in Calls :
            IF c \in Owners(inf, q)
            THEN c \in Owners(inFlight', queued') \/ result'[c] # "none"
            ELSE result'[c] = res[c]

Handled(T, W) ==
    /\ Consistent(inFlight', queued', result')
    /\ Owners(inFlight', queued') \subseteq Owners(inFlight, queued) \cup T
    /\ \A c \in Calls :
            IF c \in Owners(inFlight, queued) \cup T
            THEN c \in Owners(inFlight', queued') \cup W \/ result'[c] # "none"
            ELSE result'[c] = result[c]

-----------------------------------------------------------------------------
(* Effects *)

\* Whoever the driver holds a reply channel for has made a call.
LEMMA OwnersAreCalls ==
    ASSUME NEW inf \in SUBSET Pending, NEW q \in Seq(Calls)
    PROVE  Owners(inf, q) \subseteq Calls
<1>1. \A o \in inf : o.owner \in Calls \cup {NoCall}
  BY Zenon DEF Pending
<1>2. \A i \in 1..Len(q) : q[i] \in Calls
  OBVIOUS
<1> QED BY <1>1, <1>2, Zenon DEF Owners

\* end_session answers everyone the driver holds, and nobody else.
LEMMA EndSessionSettles ==
    ASSUME NEW inf, NEW q, NEW res \in ResultMap, NEW why,
           EndSession(inf, q, res, why)
    PROVE  Settles(inf, q, res)
<1>1. Owners(inFlight', queued') = {}
  BY DEF EndSession, Owners
<1>2. Consistent(inFlight', queued', result')
  BY <1>1 DEF EndSession, Consistent, Distinct
<1>3. \A c \in Calls : IF c \in Owners(inf, q) THEN result'[c] # "none"
                                             ELSE result'[c] = res[c]
  BY Zenon DEF EndSession, ReplyAll
<1> QED BY <1>1, <1>2, <1>3, Zenon DEF Settles

\* A session that goes on holds exactly the exchanges and replies it is given.
LEMMA ContinueSettles ==
    ASSUME NEW st, NEW k, NEW inf, NEW q, NEW res, Consistent(inf, q, res),
           Continue(st, k, inf, q, res)
    PROVE  Settles(inf, q, res)
BY Zenon DEF Continue, Settles

\* Cutting a sequence before and after its n-th element.
LEMMA SuffixAfter ==
    ASSUME NEW q \in Seq(Calls), NEW n \in 1..Len(q)
    PROVE  /\ SubSeq(q, n + 1, Len(q)) \in Seq(Calls)
           /\ Len(SubSeq(q, n + 1, Len(q))) = Len(q) - n
           /\ \A i \in 1..(Len(q) - n) :
                 /\ SubSeq(q, n + 1, Len(q))[i] = q[n + i]
                 /\ n + i \in 1..Len(q)
           /\ \A i \in 1..Len(q) :
                 \/ i \in 1..(n - 1)
                 \/ i = n
                 \/ i - n \in 1..(Len(q) - n) /\ q[i] = SubSeq(q, n + 1, Len(q))[i - n]
<1>1. /\ SubSeq(q, n + 1, Len(q)) \in Seq(Calls)
      /\ Len(SubSeq(q, n + 1, Len(q))) = Len(q) - n
      /\ \A i \in 1..(Len(q) - n) :
            /\ SubSeq(q, n + 1, Len(q))[i] = q[n + i]
            /\ n + i \in 1..Len(q)
  OBVIOUS
<1>2. \A i \in 1..Len(q) : \/ i \in 1..(n - 1)
                           \/ i = n
                           \/ i - n \in 1..(Len(q) - n) /\ n + (i - n) = i
  OBVIOUS
<1> QED BY <1>1, <1>2, Zenon

\* The loop of send_queued answers a prefix of the queue and moves the request
\* after it into flight; both leave the queue for good.
LEMMA SendQueuedSettles ==
    ASSUME NEW st, NEW inf \in SUBSET Pending, NEW q \in Seq(Calls),
           NEW res \in ResultMap, Consistent(inf, q, res),
           SendQueued(st, inf, q, res)
    PROVE  Settles(inf, q, res)
<1>1. CASE Continue(st, keepAliveAt, inf, q, res)
  BY <1>1, ContinueSettles, Zenon
<1>c. \A i \in 1..Len(q) : q[i] \in Calls /\ q[i] \in Owners(inf, q)
  BY DEF Owners
<1>2. ASSUME NEW n \in 1..Len(q), op[q[n]] \notin Immediate,
             NEW p \in NewPendings(inf, "caller", q[n], op[q[n]]),
             Continue(st, keepAliveAt, inf \cup {p}, SubSeq(q, n + 1, Len(q)),
                      ReplySent(res, q, n - 1))
      PROVE  Settles(inf, q, res)
  <2> DEFINE rest == SubSeq(q, n + 1, Len(q))
             sent == ReplySent(res, q, n - 1)
  <2>1. p \in Pending /\ p.owner = q[n]
    BY <1>c, NewPendingType
  <2>2. /\ Len(rest) = Len(q) - n
        /\ \A i \in 1..Len(rest) : rest[i] = q[n + i] /\ n + i \in 1..Len(q)
        /\ \A i \in 1..Len(q) : \/ i \in 1..(n - 1)
                                \/ i = n
                                \/ i - n \in 1..Len(rest) /\ q[i] = rest[i - n]
    BY SuffixAfter
  <2>3. \A i \in 1..(n - 1) : i \in 1..Len(q) /\ i # n
    OBVIOUS
  <2>4. \A c \in Calls : sent[c] = IF \E i \in 1..(n - 1) : q[i] = c
                                   THEN IF op[c] = "bad" THEN "failed" ELSE "ok"
                                   ELSE res[c]
    BY Zenon DEF ReplySent
  <2>5. \A i \in 1..Len(rest) : n + i # n /\ n + i \notin 1..(n - 1)
    BY <2>2
  <2>6. NoCall \notin Calls
    BY NoCallAssumption, Zenon
  <2> HIDE DEF rest, sent
  <2>7. Distinct(inf \cup {p}, rest)
    <3>1. \A i, j \in 1..Len(rest) : rest[i] = rest[j] => i = j
      <4>1. \A i, j \in 1..Len(rest) : n + i = n + j => i = j
        BY <2>2
      <4> QED BY <2>2, <4>1 DEF Consistent, Distinct
    <3>2. \A o \in inf : o.owner # p.owner
      BY <2>1, Zenon DEF Consistent, Distinct
    <3>3. \A i \in 1..Len(rest) : p.owner # rest[i]
      BY <2>1, <2>2, <2>5 DEF Consistent, Distinct
    <3>4. \A o \in inf, i \in 1..Len(rest) : o.owner # rest[i]
      BY <2>2 DEF Consistent, Distinct
    <3> QED BY <3>1, <3>2, <3>3, <3>4, Zenon DEF Consistent, Distinct
  <2>8. \A c : c \in Owners(inf \cup {p}, rest) =>
                  /\ c \in Owners(inf, q)
                  /\ ~\E i \in 1..(n - 1) : q[i] = c
    <3>1. \A i \in 1..Len(rest) : /\ rest[i] \in Owners(inf, q)
                                  /\ ~\E j \in 1..(n - 1) : q[j] = rest[i]
      BY <1>c, <2>2, <2>3, <2>5 DEF Consistent, Distinct
    <3>2. p.owner \in Owners(inf, q) /\ ~\E j \in 1..(n - 1) : q[j] = p.owner
      BY <1>c, <2>1, <2>3, Zenon DEF Consistent, Distinct
    <3>3. \A o \in inf : o.owner # NoCall =>
             o.owner \in Owners(inf, q) /\ ~\E j \in 1..(n - 1) : q[j] = o.owner
      BY <2>3, Zenon DEF Consistent, Distinct, Owners
    <3> QED BY <3>1, <3>2, <3>3, Zenon DEF Owners
  <2>9. \A c \in Owners(inf \cup {p}, rest) : c \in Calls
    <3>1. \A o \in inf \cup {p} : o.owner \in Calls \cup {NoCall}
      BY <2>1, Zenon DEF Pending
    <3>2. \A i \in 1..Len(rest) : rest[i] \in Calls
      BY <1>c, <2>2, Zenon
    <3> QED BY <3>1, <3>2, Zenon DEF Owners
  <2>10. Consistent(inf \cup {p}, rest, sent)
    BY <2>4, <2>7, <2>8, <2>9, Zenon DEF Consistent
  <2>11. \A c \in Owners(inf, q) : \/ c \in Owners(inf \cup {p}, rest)
                                   \/ \E i \in 1..(n - 1) : q[i] = c
    <3>1. \A o \in inf : o.owner # NoCall => o.owner \in Owners(inf \cup {p}, rest)
      BY Zenon DEF Owners
    <3>2. q[n] \in Owners(inf \cup {p}, rest)
      BY <1>c, <2>1, <2>6, Zenon DEF Owners
    <3>3. \A i \in 1..Len(rest) : rest[i] \in Owners(inf \cup {p}, rest)
      BY Zenon DEF Owners
    <3>4. \A i \in 1..Len(q) : \/ \E j \in 1..(n - 1) : q[j] = q[i]
                              \/ q[i] \in Owners(inf \cup {p}, rest)
      BY <2>2, <3>2, <3>3, Zenon
    <3> QED BY <3>1, <3>4, Zenon DEF Owners
  <2>12. \A c \in Calls : c \notin Owners(inf, q) => sent[c] = res[c]
    BY <1>c, <2>3, <2>4
  <2>13. inFlight' = inf \cup {p} /\ queued' = rest /\ result' = sent
    BY <1>2, Zenon DEF Continue, rest, sent
  <2> QED BY <2>4, <2>8, <2>10, <2>11, <2>12, <2>13, Zenon DEF Settles
<1>3. ASSUME NEW n \in 1..Len(q),
             EndSession(inf, SubSeq(q, n + 1, Len(q)),
                        Reply(ReplySent(res, q, n - 1), q[n], "io"),
                        "transportFailed")
      PROVE  Settles(inf, q, res)
  <2> DEFINE rest == SubSeq(q, n + 1, Len(q))
             said == Reply(ReplySent(res, q, n - 1), q[n], "io")
  <2>1. /\ \A i \in 1..Len(rest) : rest[i] = q[n + i] /\ n + i \in 1..Len(q)
        /\ \A i \in 1..Len(q) : \/ i \in 1..(n - 1)
                                \/ i = n
                                \/ i - n \in 1..Len(rest) /\ q[i] = rest[i - n]
    BY ZenonT(60), SuffixAfter
  <2>2. \A i \in 1..(n - 1) : i \in 1..Len(q)
    OBVIOUS
  <2>3. \A c \in Calls : said[c] = IF c = q[n] THEN "io"
                                   ELSE IF \E i \in 1..(n - 1) : q[i] = c
                                   THEN IF op[c] = "bad" THEN "failed" ELSE "ok"
                                   ELSE res[c]
    BY Zenon DEF ReplySent, Reply
  <2>4. said \in ResultMap
    BY ReplySentType, ReplyType, Zenon DEF Results
  <2> HIDE DEF rest, said
  <2>5. Settles(inf, rest, said)
    BY <1>3, <2>4, EndSessionSettles, Zenon DEF rest, said
  <2>6. Owners(inFlight', queued') = {}
    <3>1. inFlight' = {} /\ queued' = <<>>
      BY <1>3, Zenon DEF EndSession
    <3>2. QED
      BY <3>1 DEF Owners
  <2>7. \A c \in Owners(inf, rest) : c \in Owners(inf, q)
    <3>1. \A i \in 1..Len(rest) : rest[i] \in Owners(inf, q)
      BY <1>c, <2>1, Zenon
    <3>2. \A o \in inf : o.owner # NoCall => o.owner \in Owners(inf, q)
      BY Zenon DEF Owners
    <3> QED BY <3>1, <3>2, Zenon DEF Owners
  <2>8. \A c \in Owners(inf, q) : \/ c \in Owners(inf, rest)
                                  \/ c = q[n]
                                  \/ \E i \in 1..(n - 1) : q[i] = c
    BY <2>1 DEF Owners
  <2>9. \A c \in Calls : c \notin Owners(inf, q) => said[c] = res[c]
    BY <1>c, <2>2, <2>3
  <2> QED BY <2>3, <2>5, <2>6, <2>7, <2>8, <2>9, Zenon DEF Settles
<1>4. ASSUME NEW n \in 1..Len(q), n = Len(q),
             Continue(st, keepAliveAt, inf, <<>>, ReplySent(res, q, n))
      PROVE  Settles(inf, q, res)
  <2> DEFINE sent == ReplySent(res, q, n)
  <2>1. \A c \in Calls : sent[c] = IF \E i \in 1..n : q[i] = c
                                   THEN IF op[c] = "bad" THEN "failed" ELSE "ok"
                                   ELSE res[c]
    BY Zenon DEF ReplySent
  <2>2. inFlight' = inf /\ queued' = <<>> /\ result' = sent
    BY <1>4, Zenon DEF Continue
  <2> HIDE DEF sent
  <2>3. \A c : c \in Owners(inf, <<>>) <=> \E o \in inf : o.owner = c /\ c # NoCall
    BY DEF Owners
  <2>4. \A c : c \in Owners(inf, q) <=> \/ c \in Owners(inf, <<>>)
                                        \/ \E i \in 1..n : q[i] = c
    BY <1>4, <2>3, Zenon DEF Owners
  <2>5. \A c \in Owners(inf, <<>>) : c \in Calls /\ ~\E i \in 1..n : q[i] = c
    BY <1>4, <2>3 DEF Consistent, Distinct, Pending
  <2>6. Consistent(inf, <<>>, sent)
    BY <2>1, <2>4, <2>5 DEF Consistent, Distinct
  <2> QED BY <2>1, <2>2, <2>4, <2>6, Zenon DEF Settles
<1> QED BY <1>1, <1>2, <1>3, <1>4, Zenon DEF SendQueued

\* A control exchange is started for a call that nothing else holds.
LEMMA StartControlSettles ==
    ASSUME Core, Consistent(inFlight, queued, result), NEW st, NEW k,
           NEW kind \in ControlOps, NEW who \in Calls \cup {NoCall},
           who \notin Owners(inFlight, queued),
           who \in Calls => result[who] = "none",
           StartControl(st, k, kind, who)
    PROVE  Handled({who}, {})
<1>t. inFlight \subseteq Pending /\ queued \in Seq(Calls) /\ result \in ResultMap
  BY Zenon DEF Core, SessionType
<1>1. ASSUME NEW p \in NewPendings(inFlight, kind, who, "con"),
             Continue(st, k, inFlight \cup {p}, queued, result)
      PROVE  Handled({who}, {})
  <2>0. kind \in {"caller"} \cup ControlOps
    BY Zenon
  <2>1. p \in Pending /\ p.owner = who
    BY <1>1, <2>0, NewPendingType
  <2>2. \A c : c \in Owners(inFlight \cup {p}, queued) <=>
                  c \in Owners(inFlight, queued) \/ (c = who /\ c # NoCall)
    <3>1. {x.owner : x \in inFlight \cup {p}} = {x.owner : x \in inFlight} \cup {who}
      BY <2>1, Zenon
    <3>2. QED
      BY <3>1, Zenon DEF Owners
  <2>3. Distinct(inFlight \cup {p}, queued)
    <3>1. \A o \in inFlight : o.owner = who => who = NoCall
      BY Zenon DEF Owners
    <3>2. \A i \in 1..Len(queued) : queued[i] # who
      BY Zenon DEF Owners
    <3> QED BY <2>1, <3>1, <3>2, Zenon DEF Consistent, Distinct
  <2>4. Consistent(inFlight \cup {p}, queued, result)
    BY <2>2, <2>3, Zenon DEF Consistent
  <2>5. inFlight' = inFlight \cup {p} /\ queued' = queued /\ result' = result
    BY <1>1, Zenon DEF Continue
  <2> QED BY <2>2, <2>4, <2>5, NoCallAssumption, Zenon DEF Handled
<1>2. CASE EndSession(inFlight, queued, Reply(result, who, "io"), "transportFailed")
  <2>1. Reply(result, who, "io") \in ResultMap
    BY <1>t, ReplyType, Zenon DEF Results
  <2>2. Settles(inFlight, queued, Reply(result, who, "io"))
    BY <1>2, <2>1, EndSessionSettles, Zenon
  <2>3. \A c \in Calls : Reply(result, who, "io")[c] =
                            IF c = who THEN "io" ELSE result[c]
    BY Zenon DEF Reply
  <2> QED BY <2>2, <2>3, Zenon DEF Settles, Handled
<1> QED BY <1>1, <1>2, Zenon DEF StartControl

\* Taking an exchange out and telling its owner.
LEMMA ToldConsistent ==
    ASSUME Core, Consistent(inFlight, queued, result), NEW p \in inFlight,
           NEW r \in Results
    PROVE  /\ Consistent(inFlight \ {p}, queued, Reply(result, p.owner, r))
           /\ Reply(result, p.owner, r) \in ResultMap
           /\ \A c : c \in Owners(inFlight, queued) <=>
                        \/ c \in Owners(inFlight \ {p}, queued)
                        \/ c = p.owner /\ c # NoCall
           /\ \A c \in Calls : Reply(result, p.owner, r)[c] =
                                  IF c = p.owner THEN r ELSE result[c]
<1>t. inFlight \subseteq Pending /\ queued \in Seq(Calls) /\ result \in ResultMap
  BY Zenon DEF Core, SessionType
<1>1. \A c \in Calls : Reply(result, p.owner, r)[c] =
                          IF c = p.owner THEN r ELSE result[c]
  BY Zenon DEF Reply
<1>2. \A c : c \in Owners(inFlight, queued) <=> \/ c \in Owners(inFlight \ {p}, queued)
                                                \/ c = p.owner /\ c # NoCall
  BY Zenon DEF Owners
<1>3. p.owner \notin Owners(inFlight \ {p}, queued)
  BY Zenon DEF Owners, Consistent, Distinct
<1>4. \A c \in Owners(inFlight, queued) : c \in Calls
  <2>1. \A o \in inFlight : o.owner \in Calls \cup {NoCall}
    BY <1>t, Zenon DEF Pending
  <2>2. \A i \in 1..Len(queued) : queued[i] \in Calls
    BY <1>t
  <2> QED BY <2>1, <2>2, Zenon DEF Owners
<1>5. Distinct(inFlight \ {p}, queued)
  BY Zenon DEF Consistent, Distinct
<1>6. Consistent(inFlight \ {p}, queued, Reply(result, p.owner, r))
  BY <1>1, <1>2, <1>3, <1>4, <1>5, Zenon DEF Consistent
<1> QED BY <1>t, <1>1, <1>2, <1>6, ReplyType, Zenon

\* complete answers the owner of the exchange and forgets nobody.
LEMMA CompleteHandled ==
    ASSUME Core, Consistent(inFlight, queued, result), NEW p \in inFlight,
           NEW out \in Outcomes, Complete(p, out)
    PROVE  Handled({}, {})
<1> DEFINE rest == inFlight \ {p}
           Told(r) == Reply(result, p.owner, r)
<1>t. /\ inFlight \subseteq Pending /\ queued \in Seq(Calls) /\ result \in ResultMap
      /\ rest \in SUBSET Pending
  BY Zenon DEF Core, SessionType
<1>1. ASSUME NEW r \in Results, Settles(rest, queued, Told(r))
      PROVE  Handled({}, {})
  <2>1. /\ \A c : c \in Owners(inFlight, queued) <=>
                     \/ c \in Owners(rest, queued)
                     \/ c = p.owner /\ c # NoCall
        /\ \A c \in Calls : Told(r)[c] = IF c = p.owner THEN r ELSE result[c]
    BY ToldConsistent, Zenon
  <2>2. r # "none" /\ NoCall \notin Calls
    BY NoCallAssumption, Zenon DEF Results
  <2>3. \A c \in Calls : c \notin Owners(rest, queued) => result'[c] = Told(r)[c]
    BY <1>1, Zenon DEF Settles
  <2> HIDE DEF Told, rest
  <2> QED BY <1>1, <2>1, <2>2, <2>3, Zenon DEF Settles, Handled
<1>2. \A r \in Results : Consistent(rest, queued, Told(r)) /\ Told(r) \in ResultMap
  BY ToldConsistent, Zenon
<1>3. Failure(out) \in Results /\ "ok" \in Results
  BY Zenon DEF Failure, Results
<1> HIDE DEF Told, rest
<1>4. ASSUME NEW r \in Results, NEW st, NEW k,
             Continue(st, k, rest, queued, Told(r))
      PROVE  Handled({}, {})
  <2>1. Settles(rest, queued, Told(r))
    BY <1>2, <1>4, ContinueSettles, Zenon
  <2> QED BY <1>1, <2>1, Zenon
<1>5. ASSUME NEW r \in Results, NEW why, EndSession(rest, queued, Told(r), why)
      PROVE  Handled({}, {})
  <2>1. Settles(rest, queued, Told(r))
    BY <1>2, <1>5, EndSessionSettles, Zenon
  <2> QED BY <1>1, <2>1
<1>6. CASE p.kind = "caller"
  <2> DEFINE r == IF out \in Answers THEN "ok" ELSE Failure(out)
  <2>1. SendQueued(status, rest, queued, Told(r))
    BY <1>6, Zenon DEF Complete, Told, rest
  <2>2. r \in Results
    BY <1>3, Zenon
  <2> HIDE DEF r
  <2>3. Settles(rest, queued, Told(r))
    BY <1>t, <1>2, <2>1, <2>2, SendQueuedSettles, Zenon
  <2> QED BY <1>1, <2>2, <2>3, Zenon
<1>7. CASE p.kind = "petition"
  <2>1. \/ Continue("active", ScheduledKeepAlive, rest, queued, Told("ok"))
        \/ Continue("connected", keepAliveAt, rest, queued, Told(Failure(out)))
    BY <1>7, Zenon DEF Complete, Told, rest
  <2> QED BY <1>3, <1>4, <2>1, Zenon
<1>8. CASE p.kind = "keepalive"
  <2>1. \/ Continue(status, ScheduledKeepAlive, rest, queued, Told("ok"))
        \/ EndSession(rest, queued, Told("ok"),
                      IF out = "reject" THEN "keepAliveRejected"
                                        ELSE "keepAlivePending")
        \/ EndSession(rest, queued, Told(Failure(out)), "keepAliveFailed")
    BY <1>8, Zenon DEF Complete, Told, rest
  <2> QED BY <1>3, <1>4, <1>5, <2>1, Zenon
<1>9. CASE p.kind = "resign"
  <2> DEFINE r == IF out \in {"accept", "reject"} THEN "ok" ELSE Failure(out)
  <2>1. EndSession(rest, queued, Told(r), "resigned")
    BY <1>9, Zenon DEF Complete, Told, rest
  <2>2. r \in Results
    BY <1>3, Zenon
  <2> HIDE DEF r
  <2> QED BY <1>5, <2>1, <2>2, Zenon
<1>10. p.kind \in {"caller", "petition", "keepalive", "resign"}
  BY <1>t, Zenon DEF Pending, ControlOps
<1> QED BY <1>6, <1>7, <1>8, <1>9, <1>10, Zenon

-----------------------------------------------------------------------------
(* Commands *)

\* A refusal answers the call it took and nothing else.
LEMMA RefuseHandled ==
    ASSUME Core, Consistent(inFlight, queued, result), NEW c \in Calls,
           c \notin Owners(inFlight, queued), NEW r \in Results, Refuse(c, r)
    PROVE  Handled({c}, {})
<1>1. \A d \in Calls : result'[d] = IF d = c THEN r ELSE result[d]
  BY Zenon DEF Refuse, Reply
<1>2. inFlight' = inFlight /\ queued' = queued
  BY Zenon DEF Refuse, exchanges
<1>3. Owners(inFlight, queued) \subseteq Calls
  BY OwnersAreCalls, Zenon DEF Core, SessionType
<1>4. r # "none"
  BY Zenon DEF Results
<1>5. Consistent(inFlight, queued, result')
  BY <1>1, <1>3, Zenon DEF Consistent
<1> QED BY <1>1, <1>2, <1>4, <1>5, Zenon DEF Handled

\* Queueing a call that nothing holds.
LEMMA SubmitHandled ==
    ASSUME Core, Consistent(inFlight, queued, result), NEW c \in Calls,
           c \notin Owners(inFlight, queued), result[c] = "none",
           NEW st, SendQueued(st, inFlight, Append(queued, c), result)
    PROVE  Handled({c}, {})
<1> DEFINE q == Append(queued, c)
<1>t. inFlight \in SUBSET Pending /\ queued \in Seq(Calls) /\ result \in ResultMap
  BY Zenon DEF Core, SessionType
<1>1. /\ q \in Seq(Calls)
      /\ Len(q) = Len(queued) + 1
      /\ \A i \in 1..Len(q) : q[i] = IF i = Len(q) THEN c ELSE queued[i]
      /\ \A i \in 1..Len(q) : i = Len(q) \/ i \in 1..Len(queued)
      /\ \A i \in 1..Len(queued) : i \in 1..Len(q) /\ i # Len(q)
      /\ Len(q) \in 1..Len(q)
  BY <1>t
<1>2. SendQueued(st, inFlight, q, result)
  BY Zenon
<1> HIDE DEF q
<1>3. \A i \in 1..Len(queued) : queued[i] # c
  BY Zenon DEF Owners
<1>4. \A p \in inFlight : p.owner # c
  BY NoCallAssumption, Zenon DEF Owners
<1>5. \A d : d \in Owners(inFlight, q) <=> d \in Owners(inFlight, queued) \/ d = c
  <2>1. {q[i] : i \in 1..Len(q)} = {queued[i] : i \in 1..Len(queued)} \cup {c}
    BY <1>1
  <2>2. QED
    BY <2>1, Zenon DEF Owners
<1>6. Distinct(inFlight, q)
  <2>1. \A i, j \in 1..Len(q) : q[i] = q[j] => i = j
    BY <1>1, <1>3 DEF Consistent, Distinct
  <2>2. \A p \in inFlight, i \in 1..Len(q) : p.owner # q[i]
    BY <1>1, <1>4, Zenon DEF Consistent, Distinct
  <2>3. QED
    BY <2>1, <2>2, Zenon DEF Consistent, Distinct
<1>7. Consistent(inFlight, q, result)
  BY <1>5, <1>6, Zenon DEF Consistent
<1>8. Settles(inFlight, q, result)
  BY <1>t, <1>1, <1>2, <1>7, SendQueuedSettles, Zenon
<1> QED BY <1>5, <1>8, Zenon DEF Settles, Handled

\* The length and the elements of a concatenation.
LEMMA Joined ==
    ASSUME NEW a \in Seq(Calls), NEW b \in Seq(Calls)
    PROVE  /\ a \o b \in Seq(Calls)
           /\ Len(a \o b) = Len(a) + Len(b)
           /\ \A j \in 1..(Len(a) + Len(b)) :
                 (a \o b)[j] = IF j <= Len(a) THEN a[j] ELSE b[j - Len(a)]
OBVIOUS

\* Removing the i-th element of a sequence.
LEMMA Removed ==
    ASSUME NEW q \in Seq(Calls), NEW i \in 1..Len(q)
    PROVE  /\ RemoveAt(q, i) \in Seq(Calls)
           /\ \A j \in 1..Len(RemoveAt(q, i)) :
                 \E k \in 1..Len(q) : /\ k # i
                                      /\ k = (IF j < i THEN j ELSE j + 1)
                                      /\ RemoveAt(q, i)[j] = q[k]
           /\ \A k \in 1..Len(q) :
                 k # i => \E j \in 1..Len(RemoveAt(q, i)) : RemoveAt(q, i)[j] = q[k]
<1> DEFINE a == SubSeq(q, 1, i - 1)
           b == SubSeq(q, i + 1, Len(q))
<1>1. /\ a \in Seq(Calls) /\ Len(a) = i - 1
      /\ \A j \in 1..(i - 1) : a[j] = q[j]
  OBVIOUS
<1>2. /\ b \in Seq(Calls) /\ Len(b) = Len(q) - i
      /\ \A j \in 1..(Len(q) - i) : b[j] = q[i + j]
  OBVIOUS
<1>3. RemoveAt(q, i) = a \o b
  BY Zenon DEF RemoveAt
<1> HIDE DEF a, b
<1>4. /\ a \o b \in Seq(Calls)
      /\ Len(a \o b) = Len(q) - 1
      /\ \A j \in 1..(Len(q) - 1) : (a \o b)[j] = IF j < i THEN a[j] ELSE b[j - (i - 1)]
  <2>1. a \o b \in Seq(Calls)
    BY <1>1, <1>2, Joined, Zenon
  <2>2. Len(a) + Len(b) = Len(q) - 1
    BY <1>1, <1>2
  <2>3. /\ Len(a \o b) = Len(a) + Len(b)
        /\ \A j \in 1..(Len(a) + Len(b)) :
              (a \o b)[j] = IF j <= Len(a) THEN a[j] ELSE b[j - Len(a)]
    BY <1>1, <1>2, Joined, Zenon
  <2>4. \A j \in 1..(Len(q) - 1) : j <= i - 1 <=> j < i
    OBVIOUS
  <2> QED BY <1>1, <2>1, <2>2, <2>3, <2>4, Zenon
<1>5. \A j \in 1..(Len(q) - 1) :
         /\ (a \o b)[j] = q[IF j < i THEN j ELSE j + 1]
         /\ (IF j < i THEN j ELSE j + 1) \in 1..Len(q)
         /\ (IF j < i THEN j ELSE j + 1) # i
  <2> TAKE j \in 1..(Len(q) - 1)
  <2>1. CASE j < i
    BY <1>1, <1>4, <2>1
  <2>2. CASE ~(j < i)
    <3>1. j - (i - 1) \in 1..(Len(q) - i) /\ i + (j - (i - 1)) = j + 1
      BY <2>2
    <3> QED BY <1>2, <1>4, <2>2, <3>1
  <2> QED BY <2>1, <2>2, Zenon
<1>6. \A k \in 1..Len(q) : k # i =>
         \E j \in 1..(Len(q) - 1) : k = IF j < i THEN j ELSE j + 1
  <2> SUFFICES ASSUME NEW k \in 1..Len(q), k # i
               PROVE  \E j \in 1..(Len(q) - 1) : k = IF j < i THEN j ELSE j + 1
    BY Zenon
  <2>1. CASE k < i
    <3>1. k \in 1..(Len(q) - 1) /\ k = IF k < i THEN k ELSE k + 1
      BY <2>1
    <3> QED BY <3>1, Zenon
  <2>2. CASE k > i
    <3>1. k - 1 \in 1..(Len(q) - 1) /\ ~(k - 1 < i) /\ k = (k - 1) + 1
      BY <2>2
    <3> QED BY <3>1, Zenon
  <2> QED BY <2>1, <2>2
<1> DEFINE r == RemoveAt(q, i)
<1>7. r = a \o b /\ Len(r) = Len(q) - 1
  BY <1>3, <1>4, Zenon
<1>8. r \in Seq(Calls)
  BY <1>4, <1>7, Zenon
<1>9. \A j \in 1..Len(r) : \E k \in 1..Len(q) : /\ k # i
                                                /\ k = (IF j < i THEN j ELSE j + 1)
                                                /\ r[j] = q[k]
  BY <1>5, <1>7, Zenon
<1>10. \A k \in 1..Len(q) : k # i => \E j \in 1..Len(r) : r[j] = q[k]
  BY ZenonT(60), <1>5, <1>6, <1>7
<1> QED BY <1>8, <1>9, <1>10, Zenon

\* Withdrawing a call from the queue or from flight.
LEMMA WithdrawHandled ==
    ASSUME Core, Consistent(inFlight, queued, result), NEW c \in Calls,
           WithdrawCommand(c)
    PROVE  Handled({}, {c})
<1>t. inFlight \in SUBSET Pending /\ queued \in Seq(Calls) /\ result \in ResultMap
  BY Zenon DEF Core, SessionType
<1>1. ASSUME NEW inf \in SUBSET Pending, NEW q \in Seq(Calls),
             Distinct(inf, q), SendQueued(status, inf, q, result),
             \A d : d \in Owners(inf, q) => d \in Owners(inFlight, queued),
             \A d : d \in Owners(inFlight, queued) => d \in Owners(inf, q) \/ d = c,
             c \notin Owners(inf, q)
      PROVE  Handled({}, {c})
  <2>1. Consistent(inf, q, result)
    BY <1>1, Zenon DEF Consistent
  <2>2. Settles(inf, q, result)
    BY <1>t, <1>1, <2>1, SendQueuedSettles, Zenon
  <2> QED BY <1>1, <2>2, Zenon DEF Settles, Handled
<1>2. ASSUME NEW i \in 1..Len(queued), queued[i] = c,
             SendQueued(status, inFlight, RemoveAt(queued, i), result)
      PROVE  Handled({}, {c})
  <2> DEFINE q == RemoveAt(queued, i)
  <2>1. /\ q \in Seq(Calls)
        /\ \A j \in 1..Len(q) :
              \E k \in 1..Len(queued) : /\ k # i
                                        /\ k = (IF j < i THEN j ELSE j + 1)
                                        /\ q[j] = queued[k]
        /\ \A k \in 1..Len(queued) :
              k # i => \E j \in 1..Len(q) : q[j] = queued[k]
    BY <1>t, Removed, Zenon
  <2>2. SendQueued(status, inFlight, q, result)
    BY <1>2, Zenon
  <2> HIDE DEF q
  <2>3. \A j, l \in 1..Len(q) : q[j] = q[l] => j = l
    <3> SUFFICES ASSUME NEW j \in 1..Len(q), NEW l \in 1..Len(q), q[j] = q[l]
                 PROVE  j = l
      BY Zenon
    <3>1. (IF j < i THEN j ELSE j + 1) = (IF l < i THEN l ELSE l + 1)
      BY <2>1 DEF Consistent, Distinct
    <3>2. j \in Int /\ l \in Int /\ i \in Int
      BY <1>t, <2>1
    <3> QED BY <3>1, <3>2
  <2>4. \A p \in inFlight, j \in 1..Len(q) : p.owner # q[j]
    BY <2>1 DEF Consistent, Distinct
  <2>5. Distinct(inFlight, q)
    BY <2>3, <2>4, Zenon DEF Consistent, Distinct
  <2>6. \A d : d \in Owners(inFlight, q) => d \in Owners(inFlight, queued)
    <3>1. \A j \in 1..Len(q) : q[j] \in Owners(inFlight, queued)
      BY <2>1, Zenon DEF Owners
    <3>2. \A p \in inFlight : p.owner = NoCall \/ p.owner \in Owners(inFlight, queued)
      BY Zenon DEF Owners
    <3> QED BY <3>1, <3>2, Zenon DEF Owners
  <2>7. \A d : d \in Owners(inFlight, queued) => d \in Owners(inFlight, q) \/ d = c
    <3>1. \A k \in 1..Len(queued) : queued[k] = c \/ queued[k] \in Owners(inFlight, q)
      BY <1>2, <2>1, Zenon DEF Owners
    <3>2. \A p \in inFlight : p.owner = NoCall \/ p.owner \in Owners(inFlight, q)
      BY Zenon DEF Owners
    <3> QED BY <3>1, <3>2, Zenon DEF Owners
  <2>8. c \notin Owners(inFlight, q)
    <3>1. \A j \in 1..Len(q) : q[j] # c
      BY <1>2, <2>1 DEF Consistent, Distinct
    <3>2. \A p \in inFlight : p.owner # c
      BY <1>2, Zenon DEF Consistent, Distinct
    <3> QED BY <3>1, <3>2, Zenon DEF Owners
  <2> QED BY <1>t, <1>1, <2>1, <2>2, <2>5, <2>6, <2>7, <2>8, Zenon
<1>3. ASSUME \A i \in 1..Len(queued) : queued[i] # c, HeldByCaller(c) # {},
             SendQueued(status, inFlight \ HeldByCaller(c), queued, result)
      PROVE  Handled({}, {c})
  <2> DEFINE inf == inFlight \ HeldByCaller(c)
  <2>1. inf \in SUBSET Pending /\ inf \subseteq inFlight
    BY <1>t, Zenon
  <2>2. Distinct(inf, queued)
    BY Zenon DEF Consistent, Distinct
  <2>3. \A p \in inFlight : p \in inf <=> p.owner # c
    BY <1>3, NoCallAssumption, Zenon DEF HeldByCaller, Consistent, Distinct
  <2>4. SendQueued(status, inf, queued, result)
    BY <1>3, Zenon
  <2> HIDE DEF inf
  <2>5. \A d : d \in Owners(inf, queued) => d \in Owners(inFlight, queued)
    BY <2>1, Zenon DEF Owners
  <2>6. \A d : d \in Owners(inFlight, queued) => d \in Owners(inf, queued) \/ d = c
    <3>1. \A p \in inFlight : p.owner = c \/ p.owner = NoCall
                                 \/ p.owner \in Owners(inf, queued)
      BY <2>3, Zenon DEF Owners
    <3>2. \A k \in 1..Len(queued) : queued[k] \in Owners(inf, queued)
      BY Zenon DEF Owners
    <3> QED BY <3>1, <3>2, Zenon DEF Owners
  <2>7. c \notin Owners(inf, queued)
    BY <1>3, <2>1, <2>3, Zenon DEF Owners
  <2> QED BY <1>t, <1>1, <2>1, <2>2, <2>4, <2>5, <2>6, <2>7, Zenon
<1>4. CASE UNCHANGED <<session, exchanges, result>>
  <2>1. inFlight' = inFlight /\ queued' = queued /\ result' = result
    BY <1>4, Zenon DEF exchanges
  <2> QED BY <2>1, Zenon DEF Handled
<1> QED BY <1>2, <1>3, <1>4, Zenon DEF WithdrawCommand

-----------------------------------------------------------------------------
(* Datagrams and timers *)

\* Replacing exchanges by ones with the same owners.
LEMMA SameOwners ==
    ASSUME Core, Consistent(inFlight, queued, result), NEW f,
           \A p \in inFlight : f[p].owner = p.owner,
           inFlight' = {f[p] : p \in inFlight}, UNCHANGED <<queued, result>>
    PROVE  Handled({}, {})
<1>1. \A d : d \in Owners(inFlight', queued') <=> d \in Owners(inFlight, queued)
  BY DEF Owners
<1>2. Distinct(inFlight', queued')
  <2>1. \A p, o \in inFlight' : p.owner = o.owner /\ p.owner # NoCall => p = o
    BY DEF Consistent, Distinct
  <2>2. \A p \in inFlight', i \in 1..Len(queued) : p.owner # queued[i]
    BY DEF Consistent, Distinct
  <2> QED BY <2>1, <2>2, Zenon DEF Consistent, Distinct
<1>3. Consistent(inFlight', queued', result')
  BY <1>1, <1>2, Zenon DEF Consistent
<1> QED BY <1>1, <1>3, Zenon DEF Handled

\* Handling a datagram forgets no caller and answers none twice.
LEMMA ReceiveHandled ==
    ASSUME Core, Consistent(inFlight, queued, result), Receive
    PROVE  Handled({}, {})
<1>t. inFlight \in SUBSET Pending /\ queued \in Seq(Calls) /\ result \in ResultMap
  BY Zenon DEF Core, SessionType
<1>1. ASSUME NEW p \in inFlight, NEW out \in Answers \cup {"reset"},
             ReceiveAnswer(p, out)
      PROVE  Handled({}, {})
  BY <1>1, CompleteHandled, Zenon DEF ReceiveAnswer, Outcomes
<1>2. ASSUME NEW p \in inFlight, AnswerAckFails(p)
      PROVE  Handled({}, {})
  <2>1. EndSession(inFlight \ {p}, queued, Reply(result, p.owner, "closed"),
                   "transportFailed")
    BY <1>2, Zenon DEF AnswerAckFails
  <2>2. /\ Reply(result, p.owner, "closed") \in ResultMap
        /\ \A c : c \in Owners(inFlight, queued) <=>
                     \/ c \in Owners(inFlight \ {p}, queued)
                     \/ c = p.owner /\ c # NoCall
        /\ \A c \in Calls : Reply(result, p.owner, "closed")[c] =
                               IF c = p.owner THEN "closed" ELSE result[c]
    BY ToldConsistent, Zenon DEF Results
  <2>3. Settles(inFlight \ {p}, queued, Reply(result, p.owner, "closed"))
    BY <2>1, <2>2, EndSessionSettles, Zenon
  <2> QED BY <2>2, <2>3, NoCallAssumption, Zenon DEF Settles, Handled
<1>3. ASSUME NEW p \in inFlight, ReceiveAck(p)
      PROVE  Handled({}, {})
  <2> DEFINE f == [o \in inFlight |->
                     IF o = p THEN [p EXCEPT !.retryAt = Unset] ELSE o]
  <2>1. inFlight' = {f[o] : o \in inFlight}
    BY <1>3, Zenon DEF ReceiveAck
  <2>2. \A o \in inFlight : f[o].owner = o.owner
    BY <1>t, Zenon DEF Pending
  <2>3. UNCHANGED <<queued, result>>
    BY <1>3, Zenon DEF ReceiveAck
  <2> HIDE DEF f
  <2> QED BY <2>1, <2>2, <2>3, SameOwners, Zenon
<1>4. CASE TransportFails
  <2>1. Settles(inFlight, queued, result)
    BY <1>t, <1>4, EndSessionSettles, Zenon DEF TransportFails
  <2> QED BY <2>1, Zenon DEF Settles, Handled
<1>5. CASE PeerCloses
  <2>1. CASE EndSession(inFlight, queued, result, "peerClosed")
    <3>1. Settles(inFlight, queued, result)
      BY <1>t, <2>1, EndSessionSettles, Zenon
    <3> QED BY <3>1 DEF Settles, Handled
  <2>2. CASE /\ inFlight' = {}
             /\ queued' = <<>>
             /\ result' = ReplyAll(result, Owners(inFlight, queued), "lost")
    <3>1. Owners(inFlight', queued') = {}
      BY <2>2 DEF Owners
    <3>2. Consistent(inFlight', queued', result')
      BY <2>2, <3>1 DEF Consistent, Distinct
    <3>3. \A c \in Calls : result'[c] = IF c \in Owners(inFlight, queued)
                                        THEN "lost" ELSE result[c]
      BY <2>2, Zenon DEF ReplyAll
    <3> QED BY <3>1, <3>2, <3>3, Zenon DEF Handled
  <2> QED BY <1>5, <2>1, <2>2, Zenon DEF PeerCloses
<1> QED BY <1>1, <1>2, <1>3, <1>4, <1>5, Zenon DEF Receive

\* Serving a due exchange forgets no caller and answers none twice.
LEMMA ExchangeTimersHandled ==
    ASSUME Core, Consistent(inFlight, queued, result), NEW p \in inFlight,
           Expire(p) \/ Retransmit(p)
    PROVE  Handled({}, {})
<1>t. inFlight \in SUBSET Pending /\ queued \in Seq(Calls) /\ result \in ResultMap
  BY Zenon DEF Core, SessionType
<1>1. CASE Expire(p)
  BY <1>1, CompleteHandled, Zenon DEF Expire, Outcomes
<1>2. CASE EndSession(inFlight, queued, result, "transportFailed")
  <2>1. Settles(inFlight, queued, result)
    BY <1>t, <1>2, EndSessionSettles, Zenon
  <2> QED BY <2>1, Zenon DEF Settles, Handled
<1>3. CASE /\ inFlight' = (inFlight \ {p}) \cup {Retransmitted(p)}
           /\ UNCHANGED <<session, queued, result>>
  <2> DEFINE f == [o \in inFlight |-> IF o = p THEN Retransmitted(p) ELSE o]
  <2>1. inFlight' = {f[o] : o \in inFlight}
    BY <1>3, Zenon
  <2>2. \A o \in inFlight : f[o].owner = o.owner
    BY <1>t, Zenon DEF Pending, Retransmitted
  <2>3. UNCHANGED <<queued, result>>
    BY <1>3, Zenon
  <2> HIDE DEF f
  <2> QED BY <2>1, <2>2, <2>3, SameOwners, Zenon
<1> QED BY <1>1, <1>2, <1>3, Zenon DEF Retransmit

-----------------------------------------------------------------------------
(* Calls and their outcomes *)

\* The calls of a channel's content.
CallsIn(q) == {q[i].call : i \in {j \in 1..Len(q) : q[j].do = "call"}}

\* No call is in the channel twice.
OnceEach(q) ==
    \A i, j \in 1..Len(q) :
        q[i].do = "call" /\ q[j].do = "call" /\ q[i].call = q[j].call => i = j

\* A command is about a call that was made, a withdrawal about one whose caller
\* stopped waiting.
Known(q, ops, waits) ==
    \A i \in 1..Len(q) :
        /\ ops[q[i].call] # "none"
        /\ q[i].do = "withdraw" => ~waits[q[i].call]

Channel ==
    /\ OnceEach(commands)
    /\ Known(commands, op, waiting)
    /\ \A c \in Unread : c \notin Owners(inFlight, queued) /\ result[c] = "none"
    /\ \A c \in Owners(inFlight, queued) : op[c] # "none"
    /\ \A c \in Calls : op[c] = "none" => result[c] = "none" /\ ~waiting[c]
    /\ ~running => commands = <<>>

CallsInv == Consistent(inFlight, queued, result) /\ Channel /\ NoCallerForgotten

Unanswerable == \A c \in Calls : result[c] # "none" => result'[c] = result[c]

-----------------------------------------------------------------------------
(* The content of the channel *)

\* The unread calls are the calls of the channel's content, before and after.
LEMMA UnreadIs == Unread = CallsIn(commands) /\ Unread' = CallsIn(commands')
BY Zenon DEF Unread, CallsIn

\* c is a call of q exactly when some command of q calls for it.
LEMMA CallsInMember ==
    ASSUME NEW q, NEW c
    PROVE  c \in CallsIn(q) <=> \E i \in 1..Len(q) : q[i].do = "call" /\ q[i].call = c
BY Zenon DEF CallsIn

\* Every command is about one of the calls.
LEMMA CommandFields ==
    ASSUME NEW q \in Seq(Command), NEW i \in 1..Len(q)
    PROVE  q[i] \in Command /\ q[i].call \in Calls /\ q[i].do \in {"call", "withdraw"}
<1>1. q[i] \in Command
  OBVIOUS
<1> QED BY <1>1, Zenon DEF Command

\* The elements of a channel that one command was added to.
LEMMA Added ==
    ASSUME NEW q \in Seq(Command), NEW e \in Command
    PROVE  /\ Append(q, e) \in Seq(Command)
           /\ Len(Append(q, e)) \in 1..Len(Append(q, e))
           /\ Append(q, e)[Len(Append(q, e))] = e
           /\ \A i \in 1..Len(Append(q, e)) :
                 \/ i \in 1..Len(q) /\ Append(q, e)[i] = q[i]
                 \/ i = Len(Append(q, e)) /\ Append(q, e)[i] = e
           /\ \A i \in 1..Len(q) : i \in 1..Len(Append(q, e)) /\ Append(q, e)[i] = q[i]
OBVIOUS

\* Sending a command adds at most its own call to the channel.
LEMMA AddedCalls ==
    ASSUME NEW q \in Seq(Command), NEW e \in Command
    PROVE  \A c : c \in CallsIn(Append(q, e)) <=>
                     c \in CallsIn(q) \/ (e.do = "call" /\ c = e.call)
<1> DEFINE r == Append(q, e)
<1>1. /\ Len(r) \in 1..Len(r) /\ r[Len(r)] = e
      /\ \A i \in 1..Len(r) : (i \in 1..Len(q) /\ r[i] = q[i]) \/ r[i] = e
      /\ \A i \in 1..Len(q) : i \in 1..Len(r) /\ r[i] = q[i]
  BY Added, Zenon
<1> HIDE DEF r
<1>2. ASSUME NEW c PROVE c \in CallsIn(r) <=> c \in CallsIn(q) \/ (e.do = "call" /\ c = e.call)
  BY <1>1, CallsInMember
<1> QED BY <1>2, Zenon DEF r

\* A call that is not in the channel may be added to it.
LEMMA AddedOnce ==
    ASSUME NEW q \in Seq(Command), NEW e \in Command, OnceEach(q),
           e.do = "call" => e.call \notin CallsIn(q)
    PROVE  OnceEach(Append(q, e))
<1> DEFINE r == Append(q, e)
<1>1. \A i \in 1..Len(r) : (i \in 1..Len(q) /\ r[i] = q[i]) \/ (i = Len(r) /\ r[i] = e)
  BY Added, Zenon
<1> HIDE DEF r
<1>2. ASSUME NEW i \in 1..Len(r), NEW j \in 1..Len(r),
             r[i].do = "call", r[j].do = "call", r[i].call = r[j].call
      PROVE  i = j
  <2>1. CASE i \in 1..Len(q) /\ r[i] = q[i] /\ j \in 1..Len(q) /\ r[j] = q[j]
    BY <1>2, <2>1, Zenon DEF OnceEach
  <2>2. CASE i \in 1..Len(q) /\ r[i] = q[i] /\ r[j] = e
    BY <1>2, <2>2, CallsInMember
  <2>3. CASE j \in 1..Len(q) /\ r[j] = q[j] /\ r[i] = e
    BY <1>2, <2>3, CallsInMember
  <2>4. CASE i = Len(r) /\ j = Len(r)
    BY <2>4, Zenon
  <2> QED BY <1>1, <2>1, <2>2, <2>3, <2>4, Zenon
<1> QED BY <1>2, Zenon DEF OnceEach, r

\* A command may be added that fits the callers' new state, provided the commands
\* before it still do.
LEMMA AddedKnown ==
    ASSUME NEW q \in Seq(Command), NEW e \in Command, NEW ops, NEW waits,
           Known(q, ops, waits), ops[e.call] # "none",
           e.do = "withdraw" => ~waits[e.call]
    PROVE  Known(Append(q, e), ops, waits)
<1> DEFINE r == Append(q, e)
<1>1. \A i \in 1..Len(r) : (i \in 1..Len(q) /\ r[i] = q[i]) \/ r[i] = e
  BY Added
<1> HIDE DEF r
<1>2. ASSUME NEW i \in 1..Len(r)
      PROVE  ops[r[i].call] # "none" /\ (r[i].do = "withdraw" => ~waits[r[i].call])
  <2>1. CASE i \in 1..Len(q) /\ r[i] = q[i]
    BY <2>1, Zenon DEF Known
  <2>2. CASE r[i] = e
    BY <2>2, Zenon
  <2> QED BY <1>1, <2>1, <2>2, Zenon
<1> QED BY <1>2, Zenon DEF Known, r

\* The elements of a channel whose first command was taken.
LEMMA Taken ==
    ASSUME NEW q \in Seq(Command), q # <<>>
    PROVE  /\ 1 \in 1..Len(q)
           /\ \A i \in 1..Len(Tail(q)) : /\ i + 1 \in 1..Len(q) /\ i + 1 # 1
                                         /\ Tail(q)[i] = q[i + 1]
           /\ \A i \in 1..Len(q) :
                 i = 1 \/ (i - 1 \in 1..Len(Tail(q)) /\ Tail(q)[i - 1] = q[i])
           /\ \A i, j \in 1..Len(Tail(q)) : i + 1 = j + 1 => i = j
<1>1. Len(q) \in Nat /\ Len(q) >= 1 /\ Len(Tail(q)) = Len(q) - 1
  OBVIOUS
<1>2. \A i \in 1..Len(Tail(q)) : /\ i + 1 \in 1..Len(q) /\ i + 1 # 1
                                 /\ Tail(q)[i] = q[i + 1]
  BY <1>1
<1>3. \A i \in 1..Len(q) : i = 1 \/ (i - 1 \in 1..Len(Tail(q)) /\ (i - 1) + 1 = i)
  BY <1>1
<1>4. \A i, j \in 1..Len(Tail(q)) : i + 1 = j + 1 => i = j
  BY <1>1
<1> QED BY <1>1, <1>2, <1>3, <1>4

\* Taking a command takes its call out of the channel, and no other.
LEMMA TakenCalls ==
    ASSUME NEW q \in Seq(Command), q # <<>>, OnceEach(q), NEW c
    PROVE  c \in CallsIn(Tail(q)) <=>
              c \in CallsIn(q) /\ ~(q[1].do = "call" /\ q[1].call = c)
<1> DEFINE r == Tail(q)
<1>1. /\ 1 \in 1..Len(q)
      /\ \A i \in 1..Len(r) : i + 1 \in 1..Len(q) /\ i + 1 # 1 /\ r[i] = q[i + 1]
      /\ \A i \in 1..Len(q) : i = 1 \/ (i - 1 \in 1..Len(r) /\ r[i - 1] = q[i])
  BY Taken, Zenon
<1> HIDE DEF r
<1>2. ASSUME c \in CallsIn(r)
      PROVE  c \in CallsIn(q) /\ ~(q[1].do = "call" /\ q[1].call = c)
  <2>1. PICK i \in 1..Len(r) : r[i].do = "call" /\ r[i].call = c
    BY <1>2, CallsInMember, Zenon
  <2>2. i + 1 \in 1..Len(q) /\ i + 1 # 1 /\ q[i + 1].do = "call" /\ q[i + 1].call = c
    BY <1>1, <2>1, Zenon
  <2>3. c \in CallsIn(q)
    BY <2>2, CallsInMember, Zenon
  <2> QED BY <1>1, <2>2, <2>3, Zenon DEF OnceEach
<1>3. ASSUME c \in CallsIn(q), ~(q[1].do = "call" /\ q[1].call = c)
      PROVE  c \in CallsIn(r)
  <2>1. PICK i \in 1..Len(q) : q[i].do = "call" /\ q[i].call = c
    BY <1>3, CallsInMember, Zenon
  <2>2. i - 1 \in 1..Len(r) /\ r[i - 1].do = "call" /\ r[i - 1].call = c
    BY <1>1, <1>3, <2>1, Zenon
  <2> QED BY <2>2, CallsInMember, Zenon
<1> QED BY <1>2, <1>3, Zenon DEF r

\* What holds of every command still holds when one was taken.
LEMMA TakenKnown ==
    ASSUME NEW q \in Seq(Command), q # <<>>, NEW ops, NEW waits,
           OnceEach(q), Known(q, ops, waits)
    PROVE  OnceEach(Tail(q)) /\ Known(Tail(q), ops, waits)
<1> DEFINE r == Tail(q)
<1>1. /\ \A i \in 1..Len(r) : i + 1 \in 1..Len(q) /\ r[i] = q[i + 1]
      /\ \A i, j \in 1..Len(r) : i + 1 = j + 1 => i = j
  BY Taken, Zenon
<1> HIDE DEF r
<1>2. OnceEach(r)
  BY <1>1 DEF OnceEach
<1>3. Known(r, ops, waits)
  BY <1>1, Zenon DEF Known
<1> QED BY <1>2, <1>3, Zenon DEF r

-----------------------------------------------------------------------------
(* Steps of the driver *)

\* Only calls of the program are in the channel.
LEMMA UnreadAreCalls ==
    ASSUME OuterType
    PROVE  Unread \subseteq Calls
<1> SUFFICES ASSUME NEW c \in CallsIn(commands) PROVE c \in Calls
  BY UnreadIs, Zenon
<1>1. PICK i \in 1..Len(commands) : commands[i].call = c
  BY CallsInMember, Zenon
<1> QED BY <1>1, CommandFields, Zenon DEF OuterType

\* The conjuncts of the invariant, one by one.
LEMMA CallsFacts ==
    ASSUME CallsInv
    PROVE  /\ Consistent(inFlight, queued, result)
           /\ OnceEach(commands)
           /\ Known(commands, op, waiting)
           /\ \A c \in Unread : c \notin Owners(inFlight, queued) /\ result[c] = "none"
           /\ \A c \in Owners(inFlight, queued) : op[c] # "none" /\ result[c] = "none"
           /\ \A c \in Calls : op[c] = "none" => result[c] = "none" /\ ~waiting[c]
           /\ ~running => commands = <<>>
           /\ \A c \in Calls : waiting[c] /\ result[c] = "none" =>
                                  c \in Unread \/ c \in Owners(inFlight, queued)
BY Zenon DEF CallsInv, Channel, Consistent, NoCallerForgotten

\* A driver step that takes no command keeps the invariant.
LEMMA OutsideKeeps ==
    ASSUME Core, OuterType, Core', CallsInv,
           UNCHANGED <<running, commands, handles, callers>>,
           NEW T, T \cap Calls = {}, Handled(T, {})
    PROVE  CallsInv' /\ Unanswerable
<1>u. running' = running /\ commands' = commands /\ op' = op /\ waiting' = waiting
  BY Zenon DEF callers
<1>1. Owners(inFlight', queued') \subseteq Calls /\ Owners(inFlight, queued) \subseteq Calls
  BY OwnersAreCalls, Zenon DEF Core, SessionType
<1>2. Owners(inFlight', queued') \subseteq Owners(inFlight, queued)
  BY <1>1, Zenon DEF Handled
<1>3. Unread' = Unread
  BY <1>u, UnreadIs, Zenon
<1>4. Unread \subseteq Calls
  BY UnreadAreCalls, Zenon
<1>5. \A c \in Calls : IF c \in Owners(inFlight, queued)
                       THEN c \in Owners(inFlight', queued') \/ result'[c] # "none"
                       ELSE result'[c] = result[c]
  BY <1>1, Zenon DEF Handled
<1>6. Unanswerable
  BY <1>5, CallsFacts, Zenon DEF Unanswerable
<1>7. NoCallerForgotten'
  BY <1>u, <1>3, <1>5, CallsFacts, Zenon DEF NoCallerForgotten
<1>8. Channel'
  <2>1. \A c \in Unread : c \notin Owners(inFlight', queued') /\ result'[c] = "none"
    BY <1>2, <1>4, <1>5, CallsFacts, Zenon
  <2>2. \A c \in Calls : op[c] = "none" => result'[c] = "none" /\ ~waiting[c]
    BY <1>5, CallsFacts, Zenon
  <2>3. \A c \in Owners(inFlight', queued') : op[c] # "none"
    BY <1>2, CallsFacts, Zenon
  <2>4. OnceEach(commands) /\ Known(commands, op, waiting) /\ (~running => commands = <<>>)
    BY CallsFacts, Zenon
  <2> QED BY <1>u, <1>3, <2>1, <2>2, <2>3, <2>4 DEF Channel
<1> QED BY <1>6, <1>7, <1>8, Zenon DEF CallsInv, Handled

\* A step that takes the next command: the call it carries leaves the channel.
LEMMA TakesKeeps ==
    ASSUME Core, OuterType, Core', CallsInv, NEW do, NEW c \in Calls, Takes(do, c),
           \/ do = "call" /\ Handled({c}, {})
           \/ do = "withdraw" /\ Handled({}, {c})
    PROVE  CallsInv' /\ Unanswerable
<1>t. /\ commands \in Seq(Command) /\ commands # <<>>
      /\ commands' = Tail(commands)
      /\ commands[1].do = do /\ commands[1].call = c
      /\ running' = running /\ op' = op /\ waiting' = waiting
  BY DEF OuterType, Takes, callers
<1>v. 1 \in 1..Len(commands)
  BY <1>t
<1>1. Owners(inFlight', queued') \subseteq Calls /\ Owners(inFlight, queued) \subseteq Calls
  BY OwnersAreCalls, Zenon DEF Core, SessionType
<1>2. OnceEach(commands) /\ Known(commands, op, waiting)
  BY CallsFacts, Zenon
<1>3. \A d : d \in Unread' <=> d \in Unread /\ ~(do = "call" /\ d = c)
  <2> SUFFICES ASSUME NEW d
               PROVE  d \in CallsIn(commands') <=>
                         d \in CallsIn(commands) /\ ~(do = "call" /\ d = c)
    BY UnreadIs, Zenon
  <2> QED BY <1>t, <1>2, TakenCalls, Zenon
<1>4. do = "call" => c \in Unread
  BY <1>t, <1>v, UnreadIs, CallsInMember, Zenon
<1>5. do = "call" => c \notin Owners(inFlight, queued) /\ result[c] = "none"
  BY <1>4, CallsFacts, Zenon
<1>6. op[c] # "none" /\ (do = "withdraw" => ~waiting[c])
  BY <1>t, <1>v, <1>2, Zenon DEF Known
<1>7. Unread \subseteq Calls
  BY UnreadAreCalls, Zenon
<1>8. /\ Consistent(inFlight', queued', result')
      /\ Owners(inFlight', queued') \subseteq
            Owners(inFlight, queued) \cup (IF do = "call" THEN {c} ELSE {})
      /\ \A d \in Calls :
            IF d \in Owners(inFlight, queued) \/ (do = "call" /\ d = c)
            THEN \/ d \in Owners(inFlight', queued')
                 \/ do = "withdraw" /\ d = c
                 \/ result'[d] # "none"
            ELSE result'[d] = result[d]
  BY Zenon DEF Handled
<1>9. Unanswerable
  BY <1>5, <1>8, CallsFacts, Zenon DEF Unanswerable
<1>10. NoCallerForgotten'
  <2> SUFFICES ASSUME NEW d \in Calls, waiting[d], result'[d] = "none"
               PROVE  d \in Unread' \/ d \in Owners(inFlight', queued')
    BY <1>t, Zenon DEF NoCallerForgotten
  <2>1. CASE d \in Owners(inFlight, queued) \/ (do = "call" /\ d = c)
    BY <1>6, <1>8, <2>1, Zenon
  <2>2. CASE ~(d \in Owners(inFlight, queued) \/ (do = "call" /\ d = c))
    <3>1. result[d] = "none"
      BY <1>8, <2>2, Zenon
    <3>2. d \in Unread
      BY <2>2, <3>1, CallsFacts, Zenon
    <3> QED BY <1>3, <2>2, <3>2, Zenon
  <2> QED BY <2>1, <2>2, Zenon
<1>11. Channel'
  <2>1. OnceEach(commands') /\ Known(commands', op, waiting)
    BY <1>t, <1>2, TakenKnown, Zenon
  <2>2. \A d \in Unread' : d \notin Owners(inFlight', queued') /\ result'[d] = "none"
    <3> SUFFICES ASSUME NEW d \in Unread'
                 PROVE  d \notin Owners(inFlight', queued') /\ result'[d] = "none"
      BY Zenon
    <3>1. d \in Unread /\ d \in Calls /\ ~(do = "call" /\ d = c)
      BY <1>3, <1>7, Zenon
    <3>2. d \notin Owners(inFlight, queued) /\ result[d] = "none"
      BY <3>1, CallsFacts, Zenon
    <3> QED BY <1>8, <3>1, <3>2, Zenon
  <2>3. \A d \in Owners(inFlight', queued') : op[d] # "none"
    BY <1>6, <1>8, CallsFacts, Zenon
  <2>4. \A d \in Calls : op[d] = "none" => result'[d] = "none" /\ ~waiting[d]
    <3> SUFFICES ASSUME NEW d \in Calls, op[d] = "none"
                 PROVE  result'[d] = "none" /\ ~waiting[d]
      BY Zenon
    <3>1. d # c /\ d \notin Owners(inFlight, queued) /\ result[d] = "none" /\ ~waiting[d]
      BY <1>6, CallsFacts, Zenon
    <3> QED BY <1>8, <3>1, Zenon
  <2>5. running
    BY Zenon DEF Takes, CanTakeCommand, InLoop
  <2> QED BY <1>t, <2>1, <2>2, <2>3, <2>4, <2>5, Zenon DEF Channel
<1> QED BY <1>8, <1>9, <1>10, <1>11, Zenon DEF CallsInv

\* Handling a command forgets no caller and answers none twice.
LEMMA CommandsKeepCalls ==
    ASSUME Core, OuterType, Core', CallsInv, HandleCommand
    PROVE  CallsInv' /\ Unanswerable
<1>a. Consistent(inFlight, queued, result)
  BY Zenon DEF CallsInv
<1>t. result \in ResultMap /\ NoCall \notin Owners(inFlight, queued)
  BY OwnersAreCalls, NoCallAssumption, Zenon DEF Core, SessionType
<1>b. ASSUME NEW c \in Calls, Takes("call", c)
      PROVE  c \notin Owners(inFlight, queued) /\ result[c] = "none"
  <2>1. commands \in Seq(Command) /\ commands # <<>> /\ commands[1].do = "call"
        /\ commands[1].call = c
    BY <1>b DEF OuterType, Takes
  <2>2. 1 \in 1..Len(commands)
    BY <2>1
  <2>3. c \in Unread
    BY <2>1, <2>2, UnreadIs, CallsInMember, Zenon
  <2> QED BY <2>3, CallsFacts, Zenon
<1>1. ASSUME NEW c \in Calls, ExchangeCommand(c)
      PROVE  CallsInv' /\ Unanswerable
  <2>1. Takes("call", c) /\ c \notin Owners(inFlight, queued) /\ result[c] = "none"
    BY <1>b, <1>1, Zenon DEF ExchangeCommand
  <2>2. CASE Refuse(c, "refused") \/ Refuse(c, "unopened")
    BY <1>a, <2>1, <2>2, RefuseHandled, TakesKeeps, Zenon DEF Results
  <2>3. CASE SendQueued(IF open THEN status ELSE "connected", inFlight,
                        Append(queued, c), result)
    BY <1>a, <2>1, <2>3, SubmitHandled, TakesKeeps, Zenon
  <2> QED BY <1>1, <2>2, <2>3, Zenon DEF ExchangeCommand
<1>2. ASSUME NEW c \in Calls, WithdrawCommand(c)
      PROVE  CallsInv' /\ Unanswerable
  BY <1>a, <1>2, WithdrawHandled, TakesKeeps, Zenon DEF WithdrawCommand
<1>3. ASSUME NEW c \in Calls, PetitionCommand(c)
      PROVE  CallsInv' /\ Unanswerable
  <2>1. Takes("call", c) /\ c \notin Owners(inFlight, queued) /\ result[c] = "none"
    BY <1>b, <1>3, Zenon DEF PetitionCommand
  <2>2. CASE Refuse(c, "refused") \/ Refuse(c, "unopened")
    BY <1>a, <2>1, <2>2, RefuseHandled, TakesKeeps, Zenon DEF Results
  <2>3. CASE Continue("connected", keepAliveAt, inFlight, queued,
                      Reply(result, c, "failed"))
    <3>1. /\ inFlight' = inFlight /\ queued' = queued
          /\ \A d \in Calls : result'[d] = IF d = c THEN "failed" ELSE result[d]
      BY <2>3, Zenon DEF Continue, Reply
    <3>2. Owners(inFlight, queued) \subseteq Calls
      BY OwnersAreCalls, Zenon DEF Core, SessionType
    <3>3. Consistent(inFlight, queued, result')
      BY <1>a, <2>1, <3>1, <3>2, Zenon DEF Consistent
    <3>4. Handled({c}, {})
      BY <3>1, <3>3, Zenon DEF Handled
    <3> QED BY <2>1, <3>4, TakesKeeps, Zenon
  <2>4. CASE StartControl("petitioning", keepAliveAt, "petition", c)
    BY <1>a, <2>1, <2>4, StartControlSettles, TakesKeeps, Zenon DEF ControlOps
  <2> QED BY <1>3, <2>2, <2>3, <2>4, Zenon DEF PetitionCommand
<1>4. ASSUME NEW c \in Calls, KeepAliveCommand(c)
      PROVE  CallsInv' /\ Unanswerable
  <2>1. Takes("call", c) /\ c \notin Owners(inFlight, queued) /\ result[c] = "none"
    BY <1>b, <1>4, Zenon DEF KeepAliveCommand
  <2>2. CASE Refuse(c, "refused")
    BY <1>a, <2>1, <2>2, RefuseHandled, TakesKeeps, Zenon DEF Results
  <2>3. CASE StartControl(status, Unset, "keepalive", c)
    BY <1>a, <2>1, <2>3, StartControlSettles, TakesKeeps, Zenon DEF ControlOps
  <2> QED BY <1>4, <2>2, <2>3, Zenon DEF KeepAliveCommand
<1>5. ASSUME NEW who \in Calls \cup {NoCall}, who \notin Owners(inFlight, queued),
             who \in Calls => result[who] = "none", Resign(who)
      PROVE  Handled({who}, {})
  <2>1. CASE EndSession(inFlight, queued, Reply(result, who, "ok"), "resigned")
    <3>1. Reply(result, who, "ok") \in ResultMap
      BY <1>t, ReplyType, Zenon DEF Results
    <3>2. Settles(inFlight, queued, Reply(result, who, "ok"))
      BY <2>1, <3>1, EndSessionSettles, Zenon
    <3>3. \A c \in Calls : Reply(result, who, "ok")[c] =
                              IF c = who THEN "ok" ELSE result[c]
      BY Zenon DEF Reply
    <3> QED BY <3>2, <3>3, Zenon DEF Settles, Handled
  <2>2. CASE StartControl(status, Unset, "resign", who)
    BY <1>a, <1>5, <2>2, StartControlSettles, Zenon DEF ControlOps
  <2> QED BY <1>5, <2>1, <2>2, Zenon DEF Resign
<1>6. ASSUME NEW c \in Calls, ResignCommand(c)
      PROVE  CallsInv' /\ Unanswerable
  <2>1. Takes("call", c) /\ c \notin Owners(inFlight, queued) /\ result[c] = "none"
    BY <1>b, <1>6, Zenon DEF ResignCommand
  <2>2. CASE Refuse(c, "refused")
    BY <1>a, <2>1, <2>2, RefuseHandled, TakesKeeps, Zenon DEF Results
  <2>3. CASE Resign(c)
    BY <1>5, <2>1, <2>3, TakesKeeps, Zenon
  <2> QED BY <1>6, <2>2, <2>3, Zenon DEF ResignCommand
<1>7. CASE HandlesDropped
  <2>0. {NoCall} \cap Calls = {} /\ UNCHANGED <<running, commands, handles, callers>>
    BY <1>7, NoCallAssumption, Zenon DEF HandlesDropped
  <2>1. CASE UNCHANGED <<session, exchanges, result>>
    <3>1. inFlight' = inFlight /\ queued' = queued /\ result' = result
      BY <2>1, Zenon DEF exchanges
    <3>2. Handled({}, {}) /\ {} \cap Calls = {}
      BY <1>a, <3>1, Zenon DEF Handled
    <3> QED BY <2>0, <3>2, OutsideKeeps, Zenon
  <2>2. CASE Resign(NoCall)
    <3>1. Handled({NoCall}, {})
      BY <1>t, <1>5, <2>2, NoCallAssumption, Zenon
    <3> QED BY <2>0, <3>1, OutsideKeeps, Zenon
  <2> QED BY <1>7, <2>1, <2>2, Zenon DEF HandlesDropped
<1> QED BY <1>1, <1>2, <1>3, <1>4, <1>6, <1>7, Zenon DEF HandleCommand

\* Every step of the driver keeps the calls invariant.
LEMMA DriverKeepsCalls ==
    ASSUME Core, OuterType, Core', CallsInv, Receive \/ RunTimers \/ Tick
    PROVE  CallsInv' /\ Unanswerable
<1>a. Consistent(inFlight, queued, result)
  BY Zenon DEF CallsInv
<1>t. inFlight \in SUBSET Pending /\ queued \in Seq(Calls) /\ result \in ResultMap
  BY Zenon DEF Core, SessionType
<1>u. UNCHANGED outside
  BY Zenon DEF Receive, ReceiveAnswer, AnswerAckFails, ReceiveAck, TransportFails,
         PeerCloses, RunTimers, Expire, Retransmit, KeepAliveTimer, Tick
<1>v. UNCHANGED <<running, commands, handles, callers>> /\ {} \cap Calls = {}
  BY <1>u, Zenon DEF outside
<1>1. CASE Receive
  BY <1>a, <1>v, <1>1, ReceiveHandled, OutsideKeeps, Zenon
<1>2. ASSUME NEW p \in inFlight, Expire(p) \/ Retransmit(p)
      PROVE  CallsInv' /\ Unanswerable
  BY <1>a, <1>v, <1>2, ExchangeTimersHandled, OutsideKeeps, Zenon
<1>3. CASE KeepAliveTimer
  <2>0. {NoCall} \cap Calls = {} /\ NoCall \notin Owners(inFlight, queued)
    BY <1>t, OwnersAreCalls, NoCallAssumption, Zenon
  <2>1. CASE StartControl(status, Unset, "keepalive", NoCall)
    <3>1. Handled({NoCall}, {})
      BY <1>a, <2>0, <2>1, StartControlSettles, NoCallAssumption, Zenon DEF ControlOps
    <3> QED BY <1>v, <2>0, <3>1, OutsideKeeps, Zenon
  <2>2. CASE EndSession(inFlight, queued, result, "keepAliveFailed")
    <3>1. Settles(inFlight, queued, result)
      BY <1>t, <2>2, EndSessionSettles, Zenon
    <3>2. Handled({}, {})
      BY <3>1, Zenon DEF Settles, Handled
    <3> QED BY <1>v, <3>2, OutsideKeeps, Zenon
  <2> QED BY <1>3, <2>1, <2>2, Zenon DEF KeepAliveTimer
<1>4. CASE Tick
  <2> DEFINE f == [p \in inFlight |-> Aged(p)]
  <2>1. inFlight' = {f[p] : p \in inFlight} /\ UNCHANGED <<queued, result>>
    BY <1>4, Zenon DEF Tick
  <2>2. \A p \in inFlight : f[p].owner = p.owner
    BY <1>t, Zenon DEF Aged, Pending
  <2> HIDE DEF f
  <2>3. Handled({}, {})
    BY <1>a, <2>1, <2>2, SameOwners, Zenon
  <2> QED BY <1>v, <2>3, OutsideKeeps
<1> QED BY <1>1, <1>2, <1>3, <1>4, Zenon DEF RunTimers

-----------------------------------------------------------------------------
(* Handles, and the end of the task *)

\* A step that touches neither calls nor exchanges keeps the invariant.
LEMMA IdleKeepsCalls ==
    ASSUME CallsInv, running' = running, commands' = commands, op' = op,
           waiting' = waiting, inFlight' = inFlight, queued' = queued, result' = result
    PROVE  CallsInv' /\ Unanswerable
<1>1. Unread' = Unread
  BY UnreadIs, Zenon
<1>2. NoCallerForgotten'
  BY <1>1, CallsFacts, Zenon DEF NoCallerForgotten
<1>3. Channel'
  BY <1>1, CallsFacts, Zenon DEF Channel
<1> QED BY <1>2, <1>3, CallsFacts, Zenon DEF CallsInv, Unanswerable

\* A new call is unread in the channel, or answered at once.
LEMMA CallKeepsCalls ==
    ASSUME Core, OuterType, CallsInv, NEW c \in Calls, NEW o \in CallOps, Call(c, o)
    PROVE  CallsInv' /\ Unanswerable
<1>t. /\ commands \in Seq(Command)
      /\ inFlight' = inFlight /\ queued' = queued /\ running' = running
      /\ op[c] = "none"
  BY Zenon DEF OuterType, Call, exchanges
<1>a. Owners(inFlight, queued) \subseteq Calls
  BY OwnersAreCalls, Zenon DEF Core, SessionType
<1>o. /\ \A d \in Calls : op'[d] = IF d = c THEN o ELSE op[d]
      /\ \A d \in Calls : waiting'[d] = IF d = c THEN TRUE ELSE waiting[d]
      /\ o # "none"
  BY CallOpsAssumption, Zenon DEF Call, OuterType, AppOps, ControlOps
<1>r. result[c] = "none" /\ ~waiting[c] /\ c \notin Owners(inFlight, queued)
  BY <1>t, CallsFacts, Zenon
<1>m. \A i \in 1..Len(commands) : commands[i].call \in Calls /\ commands[i].call # c
  <2>1. \A i \in 1..Len(commands) : commands[i].call \in Calls
    BY <1>t, CommandFields, Zenon
  <2>2. Known(commands, op, waiting)
    BY CallsFacts, Zenon
  <2> QED BY <1>t, <2>1, <2>2, Zenon DEF Known
<1>n. c \notin Unread
  BY <1>m, UnreadIs, CallsInMember, Zenon
<1>k. OnceEach(commands) /\ Known(commands, op', waiting')
  <2>1. OnceEach(commands) /\ Known(commands, op, waiting)
    BY CallsFacts, Zenon
  <2>2. \A i \in 1..Len(commands) : /\ op'[commands[i].call] = op[commands[i].call]
                                    /\ waiting'[commands[i].call] = waiting[commands[i].call]
    BY <1>o, <1>m, Zenon
  <2> QED BY <2>1, <2>2, Zenon DEF Known
<1>w. \A d \in Owners(inFlight, queued) : op'[d] # "none"
  BY <1>o, <1>a, CallsFacts, Zenon
<1>1. CASE running
  <2> DEFINE e == [do |-> "call", call |-> c]
  <2>1. commands' = Append(commands, e) /\ result' = result
    BY <1>1, Zenon DEF Call
  <2>2. e \in Command /\ e.do = "call" /\ e.call = c
    BY Zenon DEF Command
  <2> HIDE DEF e
  <2>3. \A d : d \in Unread' <=> d \in Unread \/ d = c
    <3>1. \A d : d \in CallsIn(commands') <=> d \in CallsIn(commands) \/ d = c
      BY <1>t, <2>1, <2>2, AddedCalls, Zenon
    <3> QED BY <3>1, UnreadIs, Zenon
  <2>4. NoCallerForgotten'
    <3> SUFFICES ASSUME NEW d \in Calls, waiting'[d], result'[d] = "none"
                 PROVE  d \in Unread' \/ d \in Owners(inFlight', queued')
      BY Zenon DEF NoCallerForgotten
    <3>1. CASE d = c
      BY <2>3, <3>1, Zenon
    <3>2. CASE d # c
      BY <1>t, <1>o, <2>1, <2>3, <3>2, CallsFacts, Zenon
    <3> QED BY <3>1, <3>2, Zenon
  <2>5. OnceEach(commands')
    BY <1>t, <1>n, <1>k, <2>1, <2>2, AddedOnce, UnreadIs, Zenon
  <2>6. Known(commands', op', waiting')
    <3>1. op'[e.call] # "none" /\ e.do # "withdraw"
      BY <1>o, <2>2, Zenon
    <3> QED BY <1>t, <1>k, <2>1, <2>2, <3>1, AddedKnown, Zenon
  <2>7. \A d \in Unread' : d \notin Owners(inFlight', queued') /\ result'[d] = "none"
    BY <1>t, <1>r, <2>1, <2>3, CallsFacts, Zenon
  <2>8. \A d \in Calls : op'[d] = "none" => result'[d] = "none" /\ ~waiting'[d]
    BY <1>o, <2>1, CallsFacts, Zenon
  <2>9. Channel'
    BY <1>t, <1>w, <1>1, <2>5, <2>6, <2>7, <2>8, Zenon DEF Channel
  <2> QED BY <1>t, <2>1, <2>4, <2>9, CallsFacts, Zenon DEF CallsInv, Unanswerable
<1>2. CASE ~running
  <2>1. commands' = commands
        /\ \A d \in Calls : result'[d] = IF d = c THEN "closed" ELSE result[d]
    BY <1>2, Zenon DEF Call, Reply
  <2>2. commands = <<>> /\ Unread' = Unread
    BY <1>2, <2>1, CallsFacts, UnreadIs, Zenon
  <2>3. Consistent(inFlight', queued', result')
    BY <1>t, <1>a, <1>r, <2>1, CallsFacts, Zenon DEF Consistent
  <2>4. NoCallerForgotten'
    BY <1>t, <1>o, <2>1, <2>2, CallsFacts, Zenon DEF NoCallerForgotten
  <2>5. \A d \in Unread : d \notin Owners(inFlight, queued) /\ result'[d] = "none"
    BY <1>n, <2>1, CallsFacts, UnreadAreCalls, Zenon
  <2>6. \A d \in Calls : op'[d] = "none" => result'[d] = "none" /\ ~waiting'[d]
    BY <1>o, <2>1, CallsFacts, Zenon
  <2>7. Channel'
    BY <1>t, <1>k, <1>w, <2>1, <2>2, <2>5, <2>6, Zenon DEF Channel
  <2>8. Unanswerable
    BY <1>r, <2>1, Zenon DEF Unanswerable
  <2> QED BY <2>3, <2>4, <2>7, <2>8, Zenon DEF CallsInv
<1> QED BY <1>1, <1>2, Zenon

\* A caller that stops waiting adds a withdrawal to the channel.
LEMMA StopWaitingKeepsCalls ==
    ASSUME Core, OuterType, CallsInv, NEW c \in Calls, StopWaiting(c)
    PROVE  CallsInv' /\ Unanswerable
<1>t. /\ commands \in Seq(Command) /\ waiting[c]
      /\ inFlight' = inFlight /\ queued' = queued /\ running' = running
      /\ op' = op /\ result' = result
  BY Zenon DEF OuterType, StopWaiting, exchanges
<1>o. \A d \in Calls : waiting'[d] = IF d = c THEN FALSE ELSE waiting[d]
  BY Zenon DEF StopWaiting, OuterType
<1>n. op[c] # "none"
  BY <1>t, CallsFacts, Zenon
<1>k. OnceEach(commands) /\ Known(commands, op, waiting')
  <2>1. OnceEach(commands) /\ Known(commands, op, waiting)
    BY CallsFacts, Zenon
  <2>2. \A i \in 1..Len(commands) :
          ~waiting[commands[i].call] => ~waiting'[commands[i].call]
    BY <1>t, <1>o, CommandFields, Zenon
  <2> QED BY <2>1, <2>2, Zenon DEF Known
<1>1. ASSUME \A d : d \in Unread' <=> d \in Unread,
             OnceEach(commands'), Known(commands', op, waiting'),
             ~running => commands' = <<>>
      PROVE  CallsInv' /\ Unanswerable
  <2>1. NoCallerForgotten'
    BY <1>t, <1>o, <1>1, CallsFacts, Zenon DEF NoCallerForgotten
  <2>2. \A d \in Calls : op[d] = "none" => result[d] = "none" /\ ~waiting'[d]
    BY <1>o, CallsFacts, Zenon
  <2>3. \A d \in Unread' : d \notin Owners(inFlight, queued) /\ result[d] = "none"
    BY <1>1, CallsFacts, Zenon
  <2>4. \A d \in Owners(inFlight, queued) : op[d] # "none"
    BY CallsFacts, Zenon
  <2>5. Channel'
    BY <1>t, <1>1, <2>2, <2>3, <2>4, Zenon DEF Channel
  <2> QED BY <1>t, <2>1, <2>5, CallsFacts, Zenon DEF CallsInv, Unanswerable
<1>2. CASE running /\ op[c] \in AppOps
  <2> DEFINE e == [do |-> "withdraw", call |-> c]
  <2>1. commands' = Append(commands, e)
    BY <1>2, Zenon DEF StopWaiting
  <2>2. e \in Command /\ e.do = "withdraw" /\ e.call = c
    BY Zenon DEF Command
  <2> HIDE DEF e
  <2>3. \A d : d \in Unread' <=> d \in Unread
    <3>1. \A d : d \in CallsIn(commands') <=> d \in CallsIn(commands)
      BY <1>t, <2>1, <2>2, AddedCalls, Zenon
    <3> QED BY <3>1, UnreadIs, Zenon
  <2>4. OnceEach(commands')
    BY <1>t, <1>k, <2>1, <2>2, AddedOnce, Zenon
  <2>5. Known(commands', op, waiting')
    <3>1. op[e.call] # "none" /\ ~waiting'[e.call]
      BY <1>o, <1>n, <2>2, Zenon
    <3> QED BY <1>t, <1>k, <2>1, <2>2, <3>1, AddedKnown, Zenon
  <2> QED BY <1>1, <1>2, <2>3, <2>4, <2>5, Zenon
<1>3. CASE ~(running /\ op[c] \in AppOps)
  <2>1. commands' = commands
    BY <1>3, Zenon DEF StopWaiting
  <2>2. Unread' = Unread
    BY <2>1, UnreadIs, Zenon
  <2> QED BY <1>1, <1>k, <2>1, <2>2, CallsFacts, Zenon
<1> QED BY <1>2, <1>3, Zenon

\* The end of the task answers whoever it leaves behind; dropping the handles
\* answers nobody.
LEMMA OthersKeepCalls ==
    ASSUME Core, OuterType, CallsInv, Stop \/ TaskStops \/ DropHandles
    PROVE  CallsInv' /\ Unanswerable
<1>1. ASSUME NEW gone, Unread \subseteq gone, Owners(inFlight', queued') = {},
             gone \subseteq Unread \cup Owners(inFlight, queued),
             Owners(inFlight, queued) \subseteq gone,
             Distinct(inFlight', queued'), commands' = <<>>, UNCHANGED callers,
             result' = ReplyAll(result, gone, "closed")
      PROVE  CallsInv' /\ Unanswerable
  <2>u. op' = op /\ waiting' = waiting
    BY <1>1, Zenon DEF callers
  <2>1. \A c \in Calls : result'[c] = IF c \in gone THEN "closed" ELSE result[c]
    BY <1>1, Zenon DEF ReplyAll
  <2>2. Unread' = {} /\ Len(commands') = 0
    BY SMTT(30), <1>1 DEF Unread
  <2>3. Consistent(inFlight', queued', result')
    BY <1>1, Zenon DEF Consistent
  <2>4. NoCallerForgotten'
    <3> SUFFICES ASSUME NEW c \in Calls, waiting[c], result'[c] = "none" PROVE FALSE
      BY <2>u, Zenon DEF NoCallerForgotten
    <3>1. c \notin gone /\ result[c] = "none"
      BY <2>1, Zenon
    <3> QED BY <1>1, <3>1, CallsFacts, Zenon
  <2>5. \A c \in gone : op[c] # "none" /\ result[c] = "none"
    <3>1. \A c \in Unread : op[c] # "none"
      <4> SUFFICES ASSUME NEW c \in CallsIn(commands) PROVE op[c] # "none"
        BY UnreadIs, Zenon
      <4>1. PICK i \in 1..Len(commands) : commands[i].call = c
        BY CallsInMember, Zenon
      <4>2. Known(commands, op, waiting)
        BY CallsFacts, Zenon
      <4> QED BY <4>1, <4>2, Zenon DEF Known
    <3> QED BY <1>1, <3>1, CallsFacts, Zenon
  <2>6. Channel'
    <3>1. OnceEach(commands') /\ Known(commands', op, waiting)
      BY <2>2 DEF OnceEach, Known
    <3>2. \A c \in Calls : op[c] = "none" => result'[c] = "none" /\ ~waiting[c]
      BY <2>1, <2>5, CallsFacts, Zenon
    <3> QED BY <1>1, <2>u, <2>2, <3>1, <3>2, Zenon DEF Channel
  <2>7. Unanswerable
    BY <2>1, <2>5, Zenon DEF Unanswerable
  <2> QED BY <2>3, <2>4, <2>6, <2>7, Zenon DEF CallsInv
<1>2. CASE Stop
  <2>1. inFlight = {} /\ queued = <<>> /\ inFlight' = {} /\ queued' = <<>>
    BY <1>2, Zenon DEF Stop, Core, Closed, Down, exchanges
  <2>2. Owners(inFlight, queued) = {} /\ Owners(inFlight', queued') = {}
    BY <2>1 DEF Owners
  <2>3. Distinct(inFlight', queued')
    BY <2>1 DEF Distinct
  <2>4. commands' = <<>> /\ UNCHANGED callers /\ result' = ReplyAll(result, Unread, "closed")
    BY <1>2, Zenon DEF Stop
  <2> QED BY <1>1, <2>2, <2>3, <2>4, Zenon
<1>3. CASE TaskStops
  <2>1. inFlight' = {} /\ queued' = <<>>
    BY <1>3, Zenon DEF TaskStops
  <2>2. Owners(inFlight', queued') = {}
    BY <2>1 DEF Owners
  <2>3. Distinct(inFlight', queued')
    BY <2>1 DEF Distinct
  <2>4. commands' = <<>> /\ UNCHANGED callers
        /\ result' = ReplyAll(result, Unread \cup Owners(inFlight, queued), "closed")
    BY <1>3, Zenon DEF TaskStops
  <2> QED BY <1>1, <2>2, <2>3, <2>4
<1>4. CASE DropHandles
  BY <1>4, IdleKeepsCalls, Zenon DEF DropHandles, exchanges, callers
<1> QED BY <1>2, <1>3, <1>4, Zenon

-----------------------------------------------------------------------------
(* Theorems *)

\* Every step keeps the invariant about calls and changes no reply.
LEMMA StepKeepsCalls ==
    ASSUME Core, OuterType, Core', CallsInv, [Next]_vars
    PROVE  CallsInv' /\ Unanswerable
<1>1. CASE UNCHANGED vars
  BY <1>1, IdleKeepsCalls, Zenon DEF vars, exchanges, callers
<1>2. CASE HandleCommand
  BY <1>2, CommandsKeepCalls, Zenon
<1>3. CASE Receive \/ RunTimers \/ Tick
  BY <1>3, DriverKeepsCalls, Zenon
<1>4. CASE Handle
  BY <1>4, CallKeepsCalls, StopWaitingKeepsCalls, OthersKeepCalls, Zenon DEF Handle
<1>5. CASE Stop \/ TaskStops
  BY <1>5, OthersKeepCalls, Zenon
<1> QED BY <1>1, <1>2, <1>3, <1>4, <1>5, Zenon DEF Next

\* Nobody has called when the driver starts.
LEMMA InitCalls == Init => CallsInv
<1> SUFFICES ASSUME Init PROVE CallsInv
  BY Zenon
<1>1. Owners(inFlight, queued) = {} /\ Unread = {} /\ Len(commands) = 0
  BY DEF Init, Owners, Unread
<1>2. Consistent(inFlight, queued, result)
  BY <1>1 DEF Init, Consistent, Distinct
<1>3. Channel
  BY <1>1 DEF Init, Channel, OnceEach, Known
<1>4. NoCallerForgotten
  BY Zenon DEF Init, NoCallerForgotten
<1> QED BY <1>2, <1>3, <1>4, Zenon DEF CallsInv

\* No sequence of refusals, withdrawals, failures, session ends and task ends
\* leaves a waiting caller unknown to the driver.
THEOREM CallersRemembered == Spec => []NoCallerForgotten
<1>1. Core /\ OuterType /\ Core' /\ CallsInv /\ [Next]_vars => CallsInv'
  BY StepKeepsCalls, Zenon
<1>2. CallsInv => NoCallerForgotten
  BY Zenon DEF CallsInv
<1> QED BY <1>1, <1>2, InitCalls, CoreInvariant, PTL DEF Spec

\* The reply a caller got is never replaced by another.
THEOREM AnswersFinal == Spec => AnsweredOnce
<1>1. Core /\ OuterType /\ Core' /\ CallsInv /\ [Next]_vars => CallsInv'
  BY StepKeepsCalls
<1>2. Core /\ OuterType /\ Core' /\ CallsInv /\ [Next]_vars =>
        [\A c \in Calls : result[c] # "none" => result'[c] = result[c]]_vars
  BY StepKeepsCalls, Zenon DEF Unanswerable
<1> QED BY <1>1, <1>2, InitCalls, CoreInvariant, PTL DEF Spec, AnsweredOnce

\* send_queued starts application exchanges only, and completing an exchange
\* starts nothing else.
LEMMA SendQueuedStarts ==
    ASSUME NEW st, NEW inf, NEW q, NEW res, SendQueued(st, inf, q, res)
    PROVE  \A p \in inFlight' : p \in inf \/ p.kind = "caller"
<1>1. CASE Continue(st, keepAliveAt, inf, q, res)
  BY <1>1, Zenon DEF Continue
<1>2. ASSUME NEW n, NEW p \in NewPendings(inf, "caller", q[n], op[q[n]]), NEW rest,
             NEW sent, Continue(st, keepAliveAt, inf \cup {p}, rest, sent)
      PROVE  \A o \in inFlight' : o \in inf \/ o.kind = "caller"
  <2>1. p.kind = "caller"
    BY DEF NewPendings
  <2> QED BY <1>2, <2>1, Zenon DEF Continue
<1>3. ASSUME NEW rest, NEW sent, EndSession(inf, rest, sent, "transportFailed")
      PROVE  \A o \in inFlight' : o \in inf \/ o.kind = "caller"
  BY <1>3, Zenon DEF EndSession
<1>4. ASSUME NEW n, Continue(st, keepAliveAt, inf, <<>>, ReplySent(res, q, n))
      PROVE  \A o \in inFlight' : o \in inf \/ o.kind = "caller"
  BY <1>4, Zenon DEF Continue
<1> QED BY <1>1, <1>2, <1>3, <1>4, Zenon DEF SendQueued

\* Completing an exchange starts application exchanges only.
LEMMA CompleteStarts ==
    ASSUME NEW p, NEW out, Complete(p, out)
    PROVE  \A o \in inFlight' : o \in inFlight \/ o.kind = "caller"
<1>1. ASSUME NEW res, SendQueued(status, inFlight \ {p}, queued, res)
      PROVE  \A o \in inFlight' : o \in inFlight \/ o.kind = "caller"
  BY <1>1, SendQueuedStarts
<1>2. ASSUME NEW st, NEW k, NEW res, Continue(st, k, inFlight \ {p}, queued, res)
      PROVE  \A o \in inFlight' : o \in inFlight \/ o.kind = "caller"
  BY <1>2, Zenon DEF Continue
<1>3. ASSUME NEW why, NEW res, EndSession(inFlight \ {p}, queued, res, why)
      PROVE  \A o \in inFlight' : o \in inFlight \/ o.kind = "caller"
  BY <1>3, Zenon DEF EndSession
<1> QED BY <1>1, <1>2, <1>3, Zenon DEF Complete

\* What NothingNewWhileResigning says of one step.
NothingNew ==
    /\ Owners(inFlight', queued') \subseteq Owners(inFlight, queued)
    /\ KeepAliveOutstanding' => KeepAliveOutstanding

\* A resigning driver refuses every command, and its keep-alive timer cannot
\* run out before the resignation does.
LEMMA ResigningStartsNothing ==
    ASSUME Core, OuterType, CallsInv, Resigning, Next
    PROVE  NothingNew
<1>a. Consistent(inFlight, queued, result)
  BY Zenon DEF CallsInv
<1>t. inFlight \in SUBSET Pending
  BY Zenon DEF Core, SessionType
<1>r. PICK p \in inFlight : p.kind = "resign"
  BY Zenon DEF Resigning, OfKind
<1>s. status = "active" /\ Sound(status, keepAliveAt, inFlight)
  BY <1>r, InFlightMeansOpen, Zenon DEF Core, Up, Sound
<1>1. ASSUME inFlight' \subseteq inFlight, queued' = queued
      PROVE  NothingNew
  BY <1>1, Zenon DEF NothingNew, Owners, KeepAliveOutstanding, OfKind
<1>2. ASSUME inFlight' = {}, queued' = <<>>
      PROVE  NothingNew
  BY <1>2 DEF NothingNew, Owners, KeepAliveOutstanding, OfKind
<1>3. ASSUME NEW W, Handled({}, W),
             \A o \in inFlight' : o.kind = "keepalive" =>
                \E q \in inFlight : q.kind = "keepalive"
      PROVE  NothingNew
  BY <1>3, Zenon DEF Handled, NothingNew, KeepAliveOutstanding, OfKind
<1>4. ASSUME NEW c \in Calls, ExchangeCommand(c) \/ PetitionCommand(c)
                              \/ KeepAliveCommand(c) \/ ResignCommand(c)
      PROVE  NothingNew
  <2>1. Refuse(c, "refused")
    BY <1>s, <1>4, Zenon DEF ExchangeCommand, PetitionCommand, KeepAliveCommand, ResignCommand
  <2> QED BY <1>1, <2>1, Zenon DEF Refuse, exchanges
<1>5. ASSUME NEW c \in Calls, WithdrawCommand(c)
      PROVE  NothingNew
  <2>1. ASSUME NEW inf, NEW q, inf \subseteq inFlight, SendQueued(status, inf, q, result)
        PROVE  \A o \in inFlight' : o.kind = "keepalive" => o \in inFlight
    BY <2>1, SendQueuedStarts, Zenon
  <2>2. CASE UNCHANGED <<session, exchanges, result>>
    BY <1>1, <2>2, Zenon DEF exchanges
  <2>3. \/ UNCHANGED <<session, exchanges, result>>
        \/ \A o \in inFlight' : o.kind = "keepalive" => o \in inFlight
    BY <1>5, <2>1, Zenon DEF WithdrawCommand
  <2> QED BY <1>a, <1>3, <1>5, <2>2, <2>3, WithdrawHandled, Zenon
<1>6. CASE HandlesDropped
  BY <1>1, <1>6, Zenon DEF HandlesDropped, exchanges
<1>7. CASE Receive
  <2>1. ASSUME NEW q \in inFlight, ReceiveAck(q)
        PROVE  \A o \in inFlight' : o.kind = "keepalive" =>
                  \E x \in inFlight : x.kind = "keepalive"
    BY <1>t, <2>1, Zenon DEF ReceiveAck, Pending
  <2>2. ASSUME NEW q \in inFlight, NEW out, ReceiveAnswer(q, out)
        PROVE  \A o \in inFlight' : o.kind = "keepalive" =>
                  \E x \in inFlight : x.kind = "keepalive"
    BY <2>2, CompleteStarts, Zenon DEF ReceiveAnswer
  <2>3. ASSUME (\E q \in inFlight : AnswerAckFails(q)) \/ TransportFails \/ PeerCloses
        PROVE  inFlight' = {}
    BY <2>3, Zenon DEF AnswerAckFails, TransportFails, PeerCloses, EndSession
  <2>4. \A o \in inFlight' : o.kind = "keepalive" =>
                  \E x \in inFlight : x.kind = "keepalive"
    BY <1>7, <2>1, <2>2, <2>3, Zenon DEF Receive
  <2> QED BY <1>a, <1>3, <1>7, <2>4, ReceiveHandled, Zenon
<1>8. ASSUME NEW q \in inFlight, Expire(q) \/ Retransmit(q)
      PROVE  NothingNew
  <2>1. CASE Expire(q)
    <3>1. \A o \in inFlight' : o \in inFlight \/ o.kind = "caller"
      BY <2>1, CompleteStarts, Zenon DEF Expire
    <3> QED BY <1>a, <1>3, <2>1, <3>1, ExchangeTimersHandled, Zenon
  <2>2. CASE Retransmit(q)
    <3>1. Retransmitted(q).kind = q.kind
      BY <1>t, Zenon DEF Retransmitted, Pending
    <3>2. \A o \in inFlight' : o.kind = "keepalive" =>
                  \E x \in inFlight : x.kind = "keepalive"
      BY <2>2, <3>1, Zenon DEF Retransmit, EndSession
    <3> QED BY <1>a, <1>3, <2>2, <3>2, ExchangeTimersHandled, Zenon
  <2> QED BY <1>8, <2>1, <2>2, Zenon
<1>9. ~KeepAliveTimer
  <2> SUFFICES ASSUME KeepAliveTimer PROVE FALSE
    BY Zenon
  <2>1. p.deadline # 0 /\ keepAliveAt = 0
    BY Zenon DEF KeepAliveTimer, ExchangeTimerDue, ExchangeDue
  <2>2. p.deadline < 0 /\ p.deadline \in 0..ExchangeTimeout
    BY <1>t, <1>r, <1>s, <2>1 DEF Sound, Unset, Pending
  <2> QED BY <2>2, TimeoutAssumption
<1>10. CASE Tick
  <2> DEFINE f == [q \in inFlight |-> Aged(q)]
  <2>1. inFlight' = {f[q] : q \in inFlight} /\ UNCHANGED <<queued, result>>
    BY <1>10, Zenon DEF Tick
  <2>2. \A q \in inFlight : f[q].owner = q.owner /\ f[q].kind = q.kind
    BY <1>t, Zenon DEF Aged, Pending
  <2> HIDE DEF f
  <2>3. Handled({}, {})
    BY <1>a, <2>1, <2>2, SameOwners, Zenon
  <2> QED BY <1>3, <2>1, <2>2, <2>3
<1>11. CASE Stop \/ TaskStops \/ Handle
  BY <1>1, <1>2, <1>11, Zenon
     DEF Stop, TaskStops, Handle, Call, StopWaiting, DropHandles, exchanges
<1> QED BY <1>4, <1>5, <1>6, <1>7, <1>8, <1>9, <1>10, <1>11, Zenon
        DEF Next, HandleCommand, RunTimers

\* While a resignation is outstanding no call is taken on and no keep-alive is
\* sent, whichever timers and answers come in between.
THEOREM ResigningTakesNothing == Spec => NothingNewWhileResigning
<1>1. Core /\ OuterType /\ Core' /\ CallsInv /\ [Next]_vars => CallsInv'
  BY StepKeepsCalls, Zenon
<1>2. Core /\ OuterType /\ CallsInv /\ [Next]_vars =>
        [Resigning /\ Resigning' =>
          /\ Owners(inFlight', queued') \subseteq Owners(inFlight, queued)
          /\ KeepAliveOutstanding' => KeepAliveOutstanding]_vars
  BY ResigningStartsNothing, Zenon DEF NothingNew
<1> QED BY <1>1, <1>2, InitCalls, CoreInvariant, PTL DEF Spec, NothingNewWhileResigning

-----------------------------------------------------------------------------
(* Retransmissions and the deadline *)

\* An exchange as `start` leaves it.
Started(p) ==
    /\ p.retransmissions = 0
    /\ p.timeout \in AckTimeouts
    /\ p.retryAt \in {p.timeout, Unset}
    /\ p.deadline = ExchangeTimeout

\* A step that only starts and ends exchanges.
OnlyStarts(inf) == \A p \in inFlight' : p \in inf \/ Started(p)

\* The retries that an exchange has left fit the time that it has left.
FitsWith(p, waits) ==
    p.retryAt # Unset =>
        /\ p.retransmissions < MaxRetransmit
        /\ p.retryAt + 2 * (p.timeout * waits[MaxRetransmit - 1 - p.retransmissions]) < p.deadline

\* waits[n] is what n retries take, in units of the first timeout.
Schedule(waits) ==
    /\ waits \in [0..MaxRetransmit -> 0..ExchangeTimeout]
    /\ waits[0] = 0
    /\ \A n \in 1..MaxRetransmit : waits[n] = 2 * waits[n - 1] + 1
    /\ \A a \in AckTimeouts : a * waits[MaxRetransmit] < ExchangeTimeout

\* The invariant of a punctual driver.
Timely == \A waits : Schedule(waits) => \A p \in inFlight : FitsWith(p, waits)

\* What `start` pushes.
LEMMA NewPendingStarted ==
    ASSUME NEW inf, NEW kind, NEW who, NEW type, NEW p \in NewPendings(inf, kind, who, type)
    PROVE  Started(p)
BY DEF NewPendings, Started

\* The handlers' shared effects only start and end exchanges.
LEMMA QueueOnlyStarts ==
    ASSUME NEW st, NEW inf, NEW q, NEW res, SendQueued(st, inf, q, res)
    PROVE  OnlyStarts(inf)
BY NewPendingStarted DEF SendQueued, Continue, EndSession, OnlyStarts

\* So do the driver's own exchanges ...
LEMMA ControlOnlyStarts ==
    ASSUME NEW st, NEW k, NEW kind, NEW who, StartControl(st, k, kind, who)
    PROVE  OnlyStarts(inFlight)
BY NewPendingStarted, Zenon DEF StartControl, Continue, EndSession, OnlyStarts

\* ... and what follows on the end of one.
LEMMA CompleteOnlyStarts ==
    ASSUME NEW p, NEW out, Complete(p, out)
    PROVE  OnlyStarts(inFlight)
<1>1. CASE \E st, inf, q, res : inf \subseteq inFlight /\ SendQueued(st, inf, q, res)
    BY <1>1, QueueOnlyStarts, Zenon DEF OnlyStarts
<1>2. CASE \E st, k, q, res : Continue(st, k, inFlight \ {p}, q, res)
    BY <1>2, Zenon DEF Continue, OnlyStarts
<1>3. CASE \E inf, q, res, why : EndSession(inf, q, res, why)
    BY <1>3, Zenon DEF EndSession, OnlyStarts
<1>4. inFlight \ {p} \subseteq inFlight
    BY Zenon
<1>5. QED
    BY <1>1, <1>2, <1>3, <1>4, Zenon DEF Complete

\* Commands start exchanges and end them, and change none.
LEMMA CommandStarts ==
    ASSUME HandleCommand
    PROVE  OnlyStarts(inFlight)
<1>1. CASE \E st, inf, q, res : inf \subseteq inFlight /\ SendQueued(st, inf, q, res)
    BY <1>1, QueueOnlyStarts, Zenon DEF OnlyStarts
<1>2. CASE \E st, k, kind, who : StartControl(st, k, kind, who)
    BY <1>2, ControlOnlyStarts, Zenon
<1>3. CASE \E st, k, q, res : Continue(st, k, inFlight, q, res)
    BY <1>3, Zenon DEF Continue, OnlyStarts
<1>4. CASE \E inf, q, res, why : EndSession(inf, q, res, why)
    BY <1>4, Zenon DEF EndSession, OnlyStarts
<1>5. CASE UNCHANGED inFlight
    BY <1>5, Zenon DEF OnlyStarts
<1>6. \A S : inFlight \subseteq inFlight /\ inFlight \ S \subseteq inFlight
    BY Zenon
<1>7. ASSUME NEW c \in Calls, ExchangeCommand(c) \/ WithdrawCommand(c) PROVE OnlyStarts(inFlight)
    BY <1>1, <1>5, <1>6, <1>7, Zenon DEF ExchangeCommand, WithdrawCommand, Refuse, exchanges
<1>8. ASSUME NEW who, Resign(who) PROVE OnlyStarts(inFlight)
    BY <1>2, <1>4, <1>8, Zenon DEF Resign
<1>9. ASSUME NEW c \in Calls, PetitionCommand(c) \/ KeepAliveCommand(c) PROVE OnlyStarts(inFlight)
    BY <1>2, <1>3, <1>5, <1>9, Zenon DEF PetitionCommand, KeepAliveCommand, Refuse, exchanges
<1>10. ASSUME NEW c \in Calls, ResignCommand(c) PROVE OnlyStarts(inFlight)
    BY <1>5, <1>8, <1>10, Zenon DEF ResignCommand, Refuse, exchanges
<1>11. CASE HandlesDropped
    BY <1>5, <1>8, <1>11, Zenon DEF HandlesDropped, exchanges
<1>12. QED
    BY <1>7, <1>9, <1>10, <1>11, Zenon DEF HandleCommand

\* An exchange that starts has time for all of its retries.
LEMMA StartedFits ==
    ASSUME NEW p, Started(p), NEW waits, Schedule(waits)
    PROVE  FitsWith(p, waits)
<1>1. p.timeout \in Nat \ {0} /\ MaxRetransmit \in Nat \ {0} /\ ExchangeTimeout \in Nat
    BY AckTimeoutsAssumption, MaxRetransmitAssumption, TimeoutAssumption, Zenon DEF Started
<1> DEFINE w == waits[MaxRetransmit - 1]
<1>2. w \in Nat /\ waits[MaxRetransmit] = 2 * w + 1
    BY <1>1 DEF Schedule
<1>3. p.timeout * (2 * w + 1) < ExchangeTimeout
    BY <1>2, Zenon DEF Schedule, Started
<1> HIDE DEF w
<1>4. p.timeout * (2 * w + 1) = p.timeout + 2 * (p.timeout * w)
    BY <1>1, <1>2
<1>5. MaxRetransmit - 1 - p.retransmissions = MaxRetransmit - 1
    BY <1>1 DEF Started
<1>6. QED
    BY <1>1, <1>3, <1>4, <1>5 DEF FitsWith, Started, w

\* The next retry is planned with the time that the ones before have left.
LEMMA RetransmittedFits ==
    ASSUME NEW p \in Pending, p.retryAt = 0, NEW waits, Schedule(waits), FitsWith(p, waits)
    PROVE  FitsWith(Retransmitted(p), waits)
<1> DEFINE o == Retransmitted(p)
           r == p.retransmissions
           t == p.timeout
<1>1. /\ o.retransmissions = r + 1 /\ o.timeout = 2 * t /\ o.deadline = p.deadline
      /\ o.retryAt = IF r + 1 < MaxRetransmit THEN 2 * t ELSE Unset
      /\ r \in Nat /\ t \in Nat /\ p.deadline \in Nat /\ MaxRetransmit \in Nat
    BY MaxRetransmitAssumption, TimeoutAssumption DEF Retransmitted, Pending
<1>2. r < MaxRetransmit /\ 2 * (t * waits[MaxRetransmit - 1 - r]) < p.deadline
    <2>1. r < MaxRetransmit /\ p.retryAt + 2 * (t * waits[MaxRetransmit - 1 - r]) < p.deadline
        <3>1. p.retryAt # Unset
            BY DEF Unset
        <3>2. QED
            BY <3>1, Zenon DEF FitsWith
    <2>2. MaxRetransmit - 1 - r \in 0..MaxRetransmit
        BY <1>1, <2>1
    <2>3. waits[MaxRetransmit - 1 - r] \in Nat
        BY <2>2 DEF Schedule
    <2>4. QED
        BY <1>1, <2>1, <2>3
<1> HIDE DEF o, r, t
<1>3. CASE r + 1 < MaxRetransmit
    <2> DEFINE w == waits[MaxRetransmit - 1 - (r + 1)]
    <2>1. w \in Nat /\ waits[MaxRetransmit - 1 - r] = 2 * w + 1
        <3>1. /\ MaxRetransmit - 1 - r \in 1..MaxRetransmit
              /\ MaxRetransmit - 1 - (r + 1) \in 0..MaxRetransmit
              /\ (MaxRetransmit - 1 - r) - 1 = MaxRetransmit - 1 - (r + 1)
            BY <1>1, <1>3
        <3>2. QED
            BY <3>1 DEF Schedule
    <2>2. 2 * (t * (2 * w + 1)) < p.deadline
        BY <1>2, <2>1, Zenon
    <2> HIDE DEF w
    <2>3. 2 * (t * (2 * w + 1)) = 2 * t + 2 * ((2 * t) * w)
        BY <1>1, <2>1
    <2>4. o.retryAt + 2 * (o.timeout * w) < o.deadline
        BY <1>1, <1>3, <2>2, <2>3, Zenon
    <2>5. QED
        BY <1>1, <1>3, <2>4, Zenon DEF FitsWith, w, o
<1>4. CASE ~(r + 1 < MaxRetransmit)
    BY <1>1, <1>4, Zenon DEF FitsWith, o
<1>5. QED
    BY <1>3, <1>4, Zenon

\* A tick of a punctual driver takes as much of both.
LEMMA AgedFits ==
    ASSUME NEW p \in Pending, ~ExchangeDue(p), NEW waits, Schedule(waits), FitsWith(p, waits)
    PROVE  FitsWith(Aged(p), waits)
<1> DEFINE o == Aged(p)
           left == 2 * (p.timeout * waits[MaxRetransmit - 1 - p.retransmissions])
<1>1. /\ o.retransmissions = p.retransmissions /\ o.timeout = p.timeout
      /\ o.retryAt = Lowered(p.retryAt) /\ o.deadline = Lowered(p.deadline)
      /\ p.deadline \in Nat /\ p.retryAt \in {Unset} \cup Nat
      /\ p.timeout \in Nat /\ p.retransmissions \in Nat /\ MaxRetransmit \in Nat
    BY MaxRetransmitAssumption, TimeoutAssumption DEF Aged, Pending
<1>2. CASE p.retryAt = Unset
    BY <1>1, <1>2 DEF FitsWith, Lowered, Unset
<1>3. CASE p.retryAt # Unset
    <2>1. p.retransmissions < MaxRetransmit /\ p.retryAt + left < p.deadline
        BY <1>3, Zenon DEF FitsWith
    <2>2. left \in Nat
        <3>1. waits[MaxRetransmit - 1 - p.retransmissions] \in Nat
            BY <1>1, <2>1 DEF Schedule
        <3>2. QED
            BY <1>1, <3>1
    <2> HIDE DEF left
    <2>3. p.retryAt > 0 /\ p.deadline > 0
        BY <1>1, <1>3 DEF ExchangeDue
    <2>4. o.retryAt = p.retryAt - 1 /\ o.deadline = p.deadline - 1
        BY <1>1, <2>3, Zenon DEF Lowered
    <2>5. o.retryAt + left < o.deadline
        BY <1>1, <1>3, <2>1, <2>2, <2>4
    <2> HIDE DEF o
    <2>6. QED
        BY <1>1, <2>1, <2>5, Zenon DEF FitsWith, left, o
<1>4. QED
    BY <1>2, <1>3, Zenon

\* Starting and ending exchanges keeps the others' schedules.
LEMMA OnlyStartsKeepsTimely ==
    ASSUME Timely, OnlyStarts(inFlight)
    PROVE  Timely'
BY StartedFits, Zenon DEF Timely, OnlyStarts, FitsWith, Schedule

\* Every step of a punctual driver keeps the schedules.
LEMMA TimelyKept ==
    ASSUME TypeOK, Timely, PunctualNext
    PROVE  Timely'
<1>1. CASE HandleCommand
    BY <1>1, CommandStarts, OnlyStartsKeepsTimely, Zenon
<1>2. CASE inFlight' \subseteq inFlight
    BY <1>2, OnlyStartsKeepsTimely, Zenon DEF OnlyStarts
<1>3. CASE \E p, out : Complete(p, out)
    BY <1>3, CompleteOnlyStarts, OnlyStartsKeepsTimely, Zenon
<1>4. CASE \E inf, q, res, why : EndSession(inf, q, res, why)
    BY <1>2, <1>4, Zenon DEF EndSession
<1>5. ASSUME NEW p \in inFlight, ReceiveAck(p) PROVE Timely'
    <2>1. inFlight' = (inFlight \ {p}) \cup {[p EXCEPT !.retryAt = Unset]} /\ p \in Pending
        BY <1>5, Zenon DEF ReceiveAck, TypeOK
    <2>2. [p EXCEPT !.retryAt = Unset].retryAt = Unset
        BY <2>1, Zenon DEF Pending
    <2>3. QED
        BY <2>1, <2>2, Zenon DEF Timely, FitsWith, Schedule
<1>6. CASE Receive
    BY <1>2, <1>3, <1>4, <1>5, <1>6, Zenon DEF Receive, ReceiveAnswer, AnswerAckFails,
       TransportFails, PeerCloses
<1>7. ASSUME NEW p \in inFlight, Retransmit(p) PROVE Timely'
    <2>1. CASE inFlight' = (inFlight \ {p}) \cup {Retransmitted(p)}
        <3>1. p \in Pending /\ p.retryAt = 0
            BY <1>7, Zenon DEF Retransmit, TypeOK
        <3>2. ASSUME NEW waits, Schedule(waits) PROVE \A o \in inFlight' : FitsWith(o, waits)
            BY <2>1, <3>1, <3>2, RetransmittedFits, Zenon DEF Timely
        <3>3. QED
            BY <3>2, Zenon DEF Timely, FitsWith, Schedule
    <2>2. QED
        BY <1>4, <1>7, <2>1, Zenon DEF Retransmit
<1>8. CASE RunTimers
    <2>1. CASE KeepAliveTimer
        BY <1>4, <2>1, ControlOnlyStarts, OnlyStartsKeepsTimely, Zenon DEF KeepAliveTimer
    <2>2. QED
        BY <1>3, <1>7, <1>8, <2>1, Zenon DEF RunTimers, Expire
<1>9. CASE Stop \/ TaskStops \/ Handle
    <2>1. inFlight' \subseteq inFlight
        BY <1>9, Zenon DEF Stop, TaskStops, Handle, Call, StopWaiting, DropHandles, exchanges
    <2>2. QED
        BY <1>2, <2>1, Zenon
<1>10. CASE ~TimerDue /\ Tick
    <2>1. inFlight' = {Aged(p) : p \in inFlight} /\ \A p \in inFlight : ~ExchangeDue(p) /\ p \in Pending
        BY <1>10, Zenon DEF Tick, TimerDue, ExchangeTimerDue, TypeOK
    <2>2. ASSUME NEW waits, Schedule(waits) PROVE \A o \in inFlight' : FitsWith(o, waits)
        BY <2>1, <2>2, AgedFits, Zenon DEF Timely
    <2>3. QED
        BY <2>2, Zenon DEF Timely, FitsWith, Schedule
<1>11. QED
    BY <1>1, <1>6, <1>8, <1>9, <1>10, Zenon DEF PunctualNext

\* A driver that serves its timers on time makes every retransmission it plans
\* before the deadline of the exchange, for any timeouts and number of retries
\* whose sum fits (exchange.rs:23).
THEOREM RetriesFit == PunctualSpec => []RetriesFitDeadline
<1>1. PunctualSpec => Spec
    <2>1. [PunctualNext]_vars => [Next]_vars
        BY Zenon DEF PunctualNext, Next
    <2>2. QED
        BY <2>1, PTL DEF PunctualSpec, Spec
<1>2. Init => Timely
    BY Zenon DEF Init, Timely
<1>3. TypeOK /\ Timely /\ [PunctualNext]_vars => Timely'
    <2>1. Timely /\ UNCHANGED vars => Timely'
        BY Zenon DEF vars, exchanges, Timely, FitsWith, Schedule
    <2>2. QED
        BY <2>1, TimelyKept, Zenon
<1>4. TypeOK /\ Timely => RetriesFitDeadline
    <2> SUFFICES ASSUME TypeOK, Timely, NEW p \in inFlight, p.retryAt # Unset
                 PROVE  p.retryAt < p.deadline
        BY Zenon DEF RetriesFitDeadline
    <2>1. PICK waits : Schedule(waits)
        BY ScheduleAssumption, Zenon DEF Schedule
    <2> DEFINE left == 2 * (p.timeout * waits[MaxRetransmit - 1 - p.retransmissions])
    <2>2. p.retransmissions < MaxRetransmit /\ p.retryAt + left < p.deadline
        BY <2>1, Zenon DEF Timely, FitsWith
    <2>3. /\ p.timeout \in Nat /\ p.retransmissions \in Nat /\ MaxRetransmit \in Nat
          /\ p.retryAt \in Nat /\ p.deadline \in Nat
        BY MaxRetransmitAssumption, TimeoutAssumption DEF TypeOK, Pending
    <2>4. waits[MaxRetransmit - 1 - p.retransmissions] \in Nat
        <3>1. /\ waits \in [0..MaxRetransmit -> 0..ExchangeTimeout]
              /\ p.retransmissions < MaxRetransmit
            BY <2>1, <2>2, Zenon DEF Schedule
        <3>2. MaxRetransmit - 1 - p.retransmissions \in 0..MaxRetransmit
            BY <2>3, <3>1
        <3>3. waits[MaxRetransmit - 1 - p.retransmissions] \in 0..ExchangeTimeout
            BY <3>1, <3>2, Zenon
        <3>4. QED
            BY <3>3
    <2>5. left \in Nat
        BY <2>3, <2>4
    <2> HIDE DEF left
    <2>6. QED
        BY <2>2, <2>3, <2>5
<1>5. QED
    BY <1>1, <1>2, <1>3, <1>4, TypeCorrect, PTL DEF PunctualSpec

-----------------------------------------------------------------------------
(* Repeated messages *)

\* For any number of devices and message IDs, any lifetime and any room: a reply
\* is given to copies of the message it answered, but for the new message that
\* arrives soon after a late answer, and a message is acted on once.  The invariant speaks of the set of entries; the lemmas say what each
\* operation on the record does to that set.

Replies == [serial : Nat, late : 0..Lifetime]

Entries == [origin : Origins, id : Ids, reply : Replies, age : 0..Lifetime]

Uses == [serial : Nat, age : 0..Lifetime, lost : BOOLEAN]

Elements(q) == {q[k] : k \in 1..Len(q)}

Types ==
    /\ entries \in Seq(Entries)
    /\ linked \in BOOLEAN
    /\ over \in BOOLEAN
    /\ message \in [Origins -> [Ids -> Uses]]
    /\ acted \in [Origins -> [Ids -> 0..2]]
    /\ crowded \in [Origins -> [Ids -> BOOLEAN]]

Use(e) == message[e.origin][e.id]

\* The message that an entry answered was first sent e.age + e.reply.late ago.  An
\* entry that can still be found answered the latest message with its ID, or one
\* that was first sent at least Lifetime before the latest.
LiveEntriesDated ==
    \A e \in Elements(entries) :
        Live(e) => /\ Use(e).serial > 0
                   /\ \/ AnswersUse(e) /\ Use(e).age <= e.age + e.reply.late
                      \/ Use(e).age + Lifetime <= e.age + e.reply.late

\* Only the border agent's messages are lost with a session, all of them, and
\* no entry of one of them is left in the next session.
LostForgotten ==
    /\ \A o \in Origins, i \in Ids : message[o][i].lost => o = BorderAgent
    /\ ~linked /\ ~over => \A i \in Ids : message[BorderAgent][i].lost
    /\ linked => \A e \in Elements(entries) : ~Use(e).lost

\* A message that was acted on and can still arrive is remembered, unless its
\* entry had to make room; its entry is no older than the message.
ActedRemembered ==
    ~over => \A o \in Origins, i \in Ids :
        acted[o][i] > 0 /\ ~crowded[o][i] /\ UnderWay(o, i) =>
            \E e \in Elements(entries) :
                e.origin = o /\ e.id = i /\ AnswersUse(e) /\ e.age <= message[o][i].age

AnsweredInv ==
    /\ Types
    /\ Len(entries) <= MaxRemembered
    /\ LiveEntriesDated
    /\ LostForgotten
    /\ ActedRemembered
    /\ ActedOnce
-----------------------------------------------------------------------------
(* Natural numbers: a set of them has a least element, and induction. *)

WellFounded == INSTANCE WellFoundedInduction

\* Every set of natural numbers that is not empty has a least element.
LEMMA LeastElement ==
    ASSUME NEW S, S \subseteq Nat, S # {}
    PROVE  \E n \in S : \A m \in S : n <= m
<1>1. PICK n \in S : \A m \in S : ~(<<m, n>> \in WellFounded!OpToRel(<, Nat))
    BY WellFounded!NatLessThanWellFounded, WellFounded!WFMin, Zenon
<1>2. WellFounded!OpToRel(<, Nat) = {ss \in Nat \X Nat : ss[1] < ss[2]}
    BY Zenon DEF WellFounded!OpToRel
<1>3. \A m \in S : ~(<<m, n>> \in {ss \in Nat \X Nat : ss[1] < ss[2]})
    BY <1>1, <1>2, Zenon
<1>4. ASSUME NEW m \in S PROVE n <= m
    <2>1. m \in Nat /\ n \in Nat /\ <<m, n>> \in Nat \X Nat
        BY Zenon
    <2>2. ~(<<m, n>>[1] < <<m, n>>[2])
        BY <1>3, <2>1, Zenon
    <2>3. QED
        BY <2>1, <2>2
<1>5. QED
    BY <1>4, Zenon

\* Induction, for a property given as the set of the numbers that have it.
LEMMA Induction ==
    ASSUME NEW S, 0 \in S, \A n \in Nat : n \in S => n + 1 \in S
    PROVE  Nat \subseteq S
<1> DEFINE missing == Nat \ S
<1> SUFFICES ASSUME missing # {} PROVE FALSE
    BY Zenon
<1>1. PICK n \in missing : \A m \in missing : n <= m
    BY LeastElement, Zenon
<1>2. n - 1 \in Nat /\ n - 1 \in S
    BY <1>1
<1>3. QED
    BY <1>1, <1>2

-----------------------------------------------------------------------------
(* The record as a set of entries *)

\* What is remembered last joins the others.
LEMMA ElementsOfAppend ==
    ASSUME NEW q \in Seq(Entries), NEW e \in Entries
    PROVE  /\ Append(q, e) \in Seq(Entries)
           /\ Len(Append(q, e)) = Len(q) + 1
           /\ Elements(Append(q, e)) = Elements(q) \cup {e}
BY DEF Elements

\* The oldest entry leaves.
LEMMA ElementsOfTail ==
    ASSUME NEW q \in Seq(Entries), q # <<>>
    PROVE  /\ Tail(q) \in Seq(Entries)
           /\ Len(Tail(q)) = Len(q) - 1
           /\ Head(q) \in Elements(q)
           /\ Elements(Tail(q)) \subseteq Elements(q)
           /\ Elements(q) \subseteq Elements(Tail(q)) \cup {Head(q)}
<1>1. /\ Tail(q) \in Seq(Entries)
      /\ Len(q) \in Nat \ {0}
      /\ Len(Tail(q)) = Len(q) - 1
      /\ Head(q) = q[1]
      /\ \A k \in 1..Len(Tail(q)) : Tail(q)[k] = q[k + 1]
    OBVIOUS
<1>2. ASSUME NEW k \in 1..Len(q) PROVE q[k] \in Elements(Tail(q)) \cup {Head(q)}
    <2>1. CASE k = 1
        BY <2>1, <1>1, Zenon
    <2>2. CASE k # 1
        <3>1. k - 1 \in 1..Len(Tail(q)) /\ Tail(q)[k - 1] = q[k]
            BY <2>2, <1>1
        <3>2. QED
            BY <3>1, Zenon DEF Elements
    <2>3. QED
        BY <2>1, <2>2, Zenon
<1>3. QED
    BY <1>1, <1>2 DEF Elements

\* The entries that leave are expired, every live entry stays, and once this is
\* done nothing more leaves.
LEMMA ExpiredForgotten ==
    ASSUME NEW q \in Seq(Entries)
    PROVE  /\ ForgetExpired(q) \in Seq(Entries)
           /\ Len(ForgetExpired(q)) <= Len(q)
           /\ Elements(ForgetExpired(q)) \subseteq Elements(q)
           /\ \A e \in Elements(q) : Live(e) => e \in Elements(ForgetExpired(q))
           /\ ForgetExpired(ForgetExpired(q)) = ForgetExpired(q)
<1> DEFINE live == {i \in 1..Len(q) : Live(q[i])}
           first == CHOOSE i \in live : \A j \in live : i <= j
<1>1. CASE live = {}
    <2>1. ForgetExpired(q) = <<>>
        BY <1>1, Zenon DEF ForgetExpired
    <2>2. ForgetExpired(<<>>) = <<>>
        BY DEF ForgetExpired
    <2>3. QED
        BY <1>1, <2>1, <2>2 DEF Elements
<1>2. CASE live # {}
    <2>1. first \in live /\ \A j \in live : first <= j
        <3>1. live \subseteq Nat
            OBVIOUS
        <3> HIDE DEF live
        <3>2. \E i \in live : \A j \in live : i <= j
            BY <1>2, <3>1, LeastElement, Zenon
        <3>3. QED
            BY <3>2, Zenon
    <2> HIDE DEF first
    <2> DEFINE f == SubSeq(q, first, Len(q))
    <2>2. ForgetExpired(q) = f
        BY <1>2, Zenon DEF ForgetExpired, first
    <2>3. /\ first \in 1..Len(q)
          /\ f \in Seq(Entries)
          /\ Len(f) = Len(q) - first + 1
          /\ \A k \in 1..Len(f) : f[k] = q[first + k - 1]
        BY <2>1
    <2> HIDE DEF f
    <2>4. ASSUME NEW k \in live PROVE q[k] \in Elements(f)
        <3>1. k - first + 1 \in 1..Len(f) /\ f[k - first + 1] = q[k]
            BY <2>1, <2>3
        <3>2. QED
            BY <3>1, Zenon DEF Elements
    <2>5. ASSUME NEW k \in 1..Len(f) PROVE f[k] \in Elements(q)
        BY <2>3, SMTT(30) DEF Elements
    <2>6. 1 \in 1..Len(f) /\ Live(f[1])
        BY <2>1, <2>3
    <2>7. ForgetExpired(f) = f
        <3> DEFINE again == {i \in 1..Len(f) : Live(f[i])}
        <3>1. 1 \in again /\ \A j \in again : 1 <= j
            BY <2>6
        <3>2. (CHOOSE i \in again : \A j \in again : i <= j) = 1
            <4>1. \A i \in again : i \in Nat /\ 1 <= i
                OBVIOUS
            <4>2. QED
                BY <3>1, <4>1
        <3>3. ForgetExpired(f) = SubSeq(f, 1, Len(f))
            BY <3>1, <3>2, Zenon DEF ForgetExpired
        <3>4. QED
            BY <2>3, <3>3
    <2>8. QED
        <3>1. Elements(f) \subseteq Elements(q)
            BY <2>5, Zenon DEF Elements
        <3>2. \A e \in Elements(q) : Live(e) => e \in Elements(f)
            BY <2>4, Zenon DEF Elements
        <3>3. Len(f) <= Len(q)
            BY <2>3
        <3>4. QED
            BY <2>2, <2>3, <2>7, <3>1, <3>2, <3>3, Zenon
<1>3. QED
    BY <1>1, <1>2, Zenon
\* A message is remembered beside the entries that are not expired, all of them
\* if there is room, all but the oldest otherwise.
LEMMA MessageRemembered ==
    ASSUME NEW q \in Seq(Entries), ForgetExpired(q) = q, Len(q) <= MaxRemembered,
           NEW o \in Origins, NEW i \in Ids, NEW s \in Replies
    PROVE  LET e == [origin |-> o, id |-> i, reply |-> s, age |-> 0]
               r == Remember(q, o, i, s)
           IN  /\ e \in Entries
               /\ r \in Seq(Entries)
               /\ Len(r) <= MaxRemembered
               /\ e \in Elements(r)
               /\ Elements(r) \subseteq Elements(q) \cup {e}
               /\ Len(q) < MaxRemembered => Elements(q) \subseteq Elements(r)
               /\ Len(q) = MaxRemembered => Head(q) \in Elements(q)
               /\ Elements(q) \subseteq Elements(r) \cup {Head(q)}
<1> DEFINE e == [origin |-> o, id |-> i, reply |-> s, age |-> 0]
           room == IF Len(q) = MaxRemembered THEN Tail(q) ELSE q
<1>1. e \in Entries
    BY LifetimeAssumption DEF Entries
<1>2. Remember(q, o, i, s) = Append(room, e)
    BY Zenon DEF Remember
<1>m. MaxRemembered \in Nat \ {0} /\ Len(q) \in Nat
    BY MaxRememberedAssumption
<1>3. CASE Len(q) = MaxRemembered
    <2>1. q # <<>> /\ room = Tail(q)
        BY <1>3, <1>m, Zenon
    <2>2. /\ Tail(q) \in Seq(Entries)
          /\ Len(Tail(q)) = Len(q) - 1
          /\ Head(q) \in Elements(q)
          /\ Elements(Tail(q)) \subseteq Elements(q)
          /\ Elements(q) \subseteq Elements(Tail(q)) \cup {Head(q)}
        BY <2>1, ElementsOfTail, Zenon
    <2> HIDE DEF e, room
    <2>3. /\ Append(room, e) \in Seq(Entries)
          /\ Len(Append(room, e)) = Len(room) + 1
          /\ Elements(Append(room, e)) = Elements(room) \cup {e}
        BY <1>1, <2>1, <2>2, ElementsOfAppend, Zenon
    <2>4. QED
        BY <1>1, <1>2, <1>3, <1>m, <2>1, <2>2, <2>3 DEF e
<1>4. CASE Len(q) < MaxRemembered
    BY <1>1, <1>2, <1>4, <1>m, ElementsOfAppend
<1>5. QED
    BY <1>3, <1>4, <1>m

\* What `kept` of ForgetBorderAgent is for the first k entries.
KeepsOthers(q, f, k) ==
    f = [n \in 0..k |->
            IF n = 0 THEN <<>>
            ELSE IF q[n].origin = BorderAgent THEN f[n - 1]
            ELSE Append(f[n - 1], q[n])]

\* The recursion of ForgetBorderAgent is well founded.
LEMMA KeptExists ==
    ASSUME NEW q \in Seq(Entries)
    PROVE  \A k \in Nat : \E f : KeepsOthers(q, f, k)
<1> DEFINE S == {k \in Nat : \E f : KeepsOthers(q, f, k)}
<1>1. 0 \in S
    <2>1. KeepsOthers(q, [n \in 0..0 |-> <<>>], 0)
        BY DEF KeepsOthers
    <2>2. QED
        BY <2>1, Zenon
<1>2. ASSUME NEW k \in Nat, k \in S PROVE k + 1 \in S
    <2>1. PICK f : KeepsOthers(q, f, k)
        BY <1>2, Zenon
    <2> DEFINE later == IF q[k + 1].origin = BorderAgent THEN f[k] ELSE Append(f[k], q[k + 1])
               g == [n \in 0..(k + 1) |-> IF n <= k THEN f[n] ELSE later]
    <2>2. ASSUME NEW n \in 0..(k + 1)
          PROVE  g[n] = IF n = 0 THEN <<>>
                        ELSE IF q[n].origin = BorderAgent THEN g[n - 1]
                        ELSE Append(g[n - 1], q[n])
        <3>1. CASE n = 0
            BY <3>1, <2>1 DEF KeepsOthers
        <3>2. CASE n # 0 /\ n <= k
            <4>1. n \in 0..k /\ n - 1 \in 0..(k + 1) /\ n - 1 <= k
                BY <3>2
            <4>2. g[n] = f[n] /\ g[n - 1] = f[n - 1]
                BY <3>2, <4>1, Zenon
            <4> HIDE DEF g
            <4>3. QED
                BY <3>2, <4>1, <4>2, <2>1, Zenon DEF KeepsOthers
        <3>3. CASE n = k + 1
            BY <3>3
        <3>4. QED
            BY <3>1, <3>2, <3>3
    <2>3. g = [n \in 0..(k + 1) |-> g[n]]
        BY Zenon
    <2> HIDE DEF g
    <2>4. KeepsOthers(q, g, k + 1)
        BY <2>2, <2>3, Zenon DEF KeepsOthers
    <2>5. QED
        BY <2>4
<1>3. Nat \subseteq S
    BY <1>1, <1>2, Induction, Zenon
<1>4. QED
    BY <1>3, Zenon

\* Exactly the border agent's entries leave.
LEMMA BorderAgentForgotten ==
    ASSUME NEW q \in Seq(Entries)
    PROVE  /\ ForgetBorderAgent(q) \in Seq(Entries)
           /\ Len(ForgetBorderAgent(q)) <= Len(q)
           /\ Elements(ForgetBorderAgent(q)) = {e \in Elements(q) : e.origin # BorderAgent}
<1> DEFINE kept[k \in 0..Len(q)] ==
               IF k = 0 THEN <<>>
               ELSE IF q[k].origin = BorderAgent THEN kept[k - 1]
               ELSE Append(kept[k - 1], q[k])
<1>1. KeepsOthers(q, kept, Len(q))
    <2>1. \E f : KeepsOthers(q, f, Len(q))
        BY KeptExists
    <2>2. QED
        BY <2>1, Zenon DEF KeepsOthers
<1>2. ForgetBorderAgent(q) = kept[Len(q)]
    BY Zenon DEF ForgetBorderAgent
<1> HIDE DEF kept
<1> DEFINE others(n) == {q[k] : k \in {j \in 1..n : q[j].origin # BorderAgent}}
           S == {n \in Nat : n <= Len(q) =>
                    /\ kept[n] \in Seq(Entries)
                    /\ Len(kept[n]) <= n
                    /\ Elements(kept[n]) = others(n)}
<1>3. 0 \in S
    <2>1. kept[0] = <<>>
        BY <1>1 DEF KeepsOthers
    <2>2. QED
        <3>1. others(0) = {} /\ Elements(<<>>) = {}
            BY DEF Elements
        <3>2. <<>> \in Seq(Entries) /\ Len(<<>>) = 0
            OBVIOUS
        <3>3. /\ kept[0] \in Seq(Entries)
              /\ Len(kept[0]) <= 0
              /\ Elements(kept[0]) = others(0)
            BY <2>1, <3>1, <3>2
        <3>4. QED
            BY <3>3, Zenon
<1>4. ASSUME NEW n \in Nat, n \in S PROVE n + 1 \in S
    <2> SUFFICES ASSUME n + 1 <= Len(q)
                 PROVE  /\ kept[n + 1] \in Seq(Entries)
                        /\ Len(kept[n + 1]) <= n + 1
                        /\ Elements(kept[n + 1]) = others(n + 1)
        OBVIOUS
    <2>1. /\ kept[n] \in Seq(Entries)
          /\ Len(kept[n]) <= n
          /\ Elements(kept[n]) = others(n)
        BY <1>4
    <2>2. kept[n + 1] = IF q[n + 1].origin = BorderAgent THEN kept[n]
                        ELSE Append(kept[n], q[n + 1])
        <3>1. n + 1 \in 0..Len(q) /\ n + 1 # 0 /\ (n + 1) - 1 = n
            OBVIOUS
        <3>2. QED
            BY <1>1, <3>1, Zenon DEF KeepsOthers
    <2>3. q[n + 1] \in Entries
        OBVIOUS
    <2>4. others(n + 1) = IF q[n + 1].origin = BorderAgent THEN others(n)
                          ELSE others(n) \cup {q[n + 1]}
        OBVIOUS
    <2> HIDE DEF others
    <2>5. CASE q[n + 1].origin = BorderAgent
        BY <2>1, <2>2, <2>4, <2>5
    <2>6. CASE q[n + 1].origin # BorderAgent
        <3>1. /\ Append(kept[n], q[n + 1]) \in Seq(Entries)
              /\ Len(Append(kept[n], q[n + 1])) = Len(kept[n]) + 1
              /\ Elements(Append(kept[n], q[n + 1])) = Elements(kept[n]) \cup {q[n + 1]}
            BY <2>1, <2>3, ElementsOfAppend, Zenon
        <3>2. Len(kept[n]) \in Nat
            BY <2>1
        <3>3. kept[n + 1] = Append(kept[n], q[n + 1])
            BY <2>2, <2>6, Zenon
        <3>4. others(n + 1) = others(n) \cup {q[n + 1]}
            BY <2>4, <2>6, Zenon
        <3>5. Len(kept[n + 1]) <= n + 1
            BY <2>1, <3>1, <3>2, <3>3
        <3>6. QED
            BY <2>1, <3>1, <3>3, <3>4, <3>5, Zenon
    <2>7. QED
        BY <2>5, <2>6, Zenon
<1>5. Len(q) \in S
    <2> HIDE DEF S
    <2>1. QED
        BY <1>3, <1>4, Induction
<1>6. others(Len(q)) = {e \in Elements(q) : e.origin # BorderAgent}
    BY Zenon DEF Elements
<1>7. QED
    BY <1>2, <1>5, <1>6

Older(e) == [e EXCEPT !.age = UpTo(@, Lifetime)]

\* Time makes every entry older.
LEMMA EntriesAge ==
    ASSUME NEW q \in Seq(Entries), NEW r, r = [k \in 1..Len(q) |-> Older(q[k])]
    PROVE  /\ r \in Seq(Entries)
           /\ Len(r) = Len(q)
           /\ Elements(r) = {Older(e) : e \in Elements(q)}
<1>1. ASSUME NEW e \in Entries PROVE Older(e) \in Entries
    <2>1. e.age \in 0..Lifetime /\ UpTo(e.age, Lifetime) \in 0..Lifetime
        BY LifetimeAssumption DEF Entries, UpTo
    <2> HIDE DEF UpTo
    <2>2. QED
        BY <2>1, Zenon DEF Entries, Older
<1> HIDE DEF Older
<1>2. r \in Seq(Entries) /\ Len(r) = Len(q) /\ \A k \in 1..Len(q) : r[k] = Older(q[k])
    BY <1>1
<1>3. QED
    BY <1>2, Zenon DEF Elements

-----------------------------------------------------------------------------
(* The steps *)

\* A message gets another use only when that of every entry still live was first
\* sent Lifetime ago.
LEMMA SendStep ==
    ASSUME AnsweredInv, NEW o \in Origins, NEW i \in Ids, Send(o, i)
    PROVE  AnsweredInv'
<1> USE DEF AnsweredInv
<1>1. \A e \in Elements(entries) : e \in Entries
    BY DEF Types, Elements
<1>2. Types'
    BY MaxSerialAssumption, LifetimeAssumption DEF Send, Types, Uses
<1>3. /\ \A p \in Origins, j \in Ids : p # o \/ j # i =>
            message'[p][j] = message[p][j] /\ acted'[p][j] = acted[p][j]
                /\ crowded'[p][j] = crowded[p][j]
      /\ message'[o][i].age = 0 /\ ~message'[o][i].lost
      /\ acted'[o][i] = 0
    BY Zenon DEF Send, Types, Uses
<1>4. message[o][i].serial \in Nat /\ message'[o][i].serial = message[o][i].serial + 1
    BY Zenon DEF Send, Types, Uses
<1>5. entries' = entries /\ linked' = linked /\ over' = over /\ linked
    BY ZenonT(60) DEF Send
<1>6. LiveEntriesDated'
    <2> SUFFICES ASSUME NEW e \in Elements(entries), Live(e)
                 PROVE  /\ Use(e)'.serial > 0
                        /\ \/ AnswersUse(e)' /\ Use(e)'.age <= e.age + e.reply.late
                           \/ Use(e)'.age + Lifetime <= e.age + e.reply.late
        BY <1>5, Zenon DEF LiveEntriesDated, Live
    <2>1. /\ e.origin \in Origins /\ e.id \in Ids
          /\ e.age \in Nat /\ e.reply.late \in Nat /\ Lifetime \in Nat
        BY <1>1, LifetimeAssumption DEF Entries, Replies
    <2>2. /\ Use(e).serial > 0
          /\ \/ AnswersUse(e) /\ Use(e).age <= e.age + e.reply.late
             \/ Use(e).age + Lifetime <= e.age + e.reply.late
        BY Zenon DEF LiveEntriesDated
    <2>3. CASE e.origin # o \/ e.id # i
        <3>1. message'[e.origin][e.id] = message[e.origin][e.id]
            BY <1>3, <2>1, <2>3, Zenon
        <3>2. QED
            BY <2>2, <3>1, Zenon DEF Use, AnswersUse
    <2>4. CASE e.origin = o /\ e.id = i
        <3>1. Use(e) = message[o][i] /\ Use(e)' = message'[o][i]
            BY <2>4, Zenon DEF Use
        <3>2. ~message[o][i].lost
            BY <1>5, <3>1, Zenon DEF LostForgotten
        <3>3. message[o][i].serial > 0
            BY <2>2, <3>1, Zenon
        <3>4. message[o][i].serial # 0
            BY <1>4, <3>3
        <3>5. message[o][i].age = Lifetime
            BY <3>2, <3>4, Zenon DEF Send
        <3>6. Use(e).age = Lifetime /\ Use(e)'.age = 0
            BY <1>3, <3>1, <3>5, Zenon
        <3>7. Use(e)'.serial > 0
            <4>1. Use(e)'.serial = message[o][i].serial + 1
                BY <1>4, <3>1, Zenon
            <4>2. QED
                BY <1>4, <4>1
        <3> HIDE DEF Use
        <3>8. Use(e)'.age + Lifetime <= e.age + e.reply.late
            BY <2>1, <2>2, <3>6
        <3>9. QED
            BY <3>7, <3>8, Zenon
    <2>5. QED
        BY <2>3, <2>4, Zenon
<1>7. LostForgotten'
    BY <1>1, <1>3, <1>5, Zenon DEF LostForgotten, Use, Entries
<1>8. ActedRemembered'
    <2> SUFFICES ASSUME ~over, NEW p \in Origins, NEW j \in Ids,
                        acted'[p][j] > 0, ~crowded'[p][j], UnderWay(p, j)'
                 PROVE  \E e \in Elements(entries) :
                            e.origin = p /\ e.id = j /\ AnswersUse(e)' /\ e.age <= message'[p][j].age
        BY <1>5, Zenon DEF ActedRemembered
    <2>1. p # o \/ j # i
        BY <1>3
    <2>2. /\ message'[p][j] = message[p][j] /\ acted'[p][j] = acted[p][j]
          /\ crowded'[p][j] = crowded[p][j]
        BY <1>3, <2>1, Zenon
    <2>3. PICK e \in Elements(entries) :
                e.origin = p /\ e.id = j /\ AnswersUse(e) /\ e.age <= message[p][j].age
        BY <2>2, Zenon DEF ActedRemembered, UnderWay
    <2>4. QED
        BY <2>2, <2>3, Zenon DEF AnswersUse
<1>9. ActedOnce'
    BY <1>3 DEF ActedOnce
<1>10. QED
    BY <1>2, <1>5, <1>6, <1>7, <1>8, <1>9, Zenon

\* What every handling of a message that can still arrive begins with.
LEMMA Forgetting ==
    ASSUME AnsweredInv
    PROVE  /\ ForgetExpired(entries) \in Seq(Entries)
           /\ Len(ForgetExpired(entries)) <= MaxRemembered
           /\ Elements(ForgetExpired(entries)) \subseteq Elements(entries)
           /\ \A e \in Elements(entries) : Live(e) => e \in Elements(ForgetExpired(entries))
           /\ ForgetExpired(ForgetExpired(entries)) = ForgetExpired(entries)
           /\ \A e \in Elements(entries) : e \in Entries
<1>1. entries \in Seq(Entries) /\ Len(entries) \in Nat /\ MaxRemembered \in Nat
    BY MaxRememberedAssumption DEF AnsweredInv, Types
<1>2. Len(ForgetExpired(entries)) \in Nat
    BY <1>1, ExpiredForgotten
<1>3. \A e \in Elements(entries) : e \in Entries
    BY <1>1 DEF Elements
<1>4. QED
    BY <1>1, <1>2, <1>3, ExpiredForgotten DEF AnsweredInv

\* A message that was acted on, can still arrive and did not have to make room
\* is found.
LEMMA ActedIsFound ==
    ASSUME AnsweredInv, ~over, NEW o \in Origins, NEW i \in Ids, UnderWay(o, i),
           acted[o][i] > 0, ~crowded[o][i]
    PROVE  \E e \in Elements(ForgetExpired(entries)) :
                e.origin = o /\ e.id = i /\ AnswersUse(e) /\ e.age <= message[o][i].age
<1>1. PICK e \in Elements(entries) :
            e.origin = o /\ e.id = i /\ AnswersUse(e) /\ e.age <= message[o][i].age
    BY Zenon DEF AnsweredInv, ActedRemembered
<1>2. e.age \in Nat /\ message[o][i].age \in Nat /\ message[o][i].age < Lifetime
    BY Forgetting DEF UnderWay, AnsweredInv, Types, Uses, Entries
<1>3. Live(e)
    BY <1>1, <1>2, LifetimeAssumption DEF Live
<1>4. QED
    BY <1>1, <1>3, Forgetting, Zenon

\* A message that is not found was not acted on, or had to make room.
LEMMA UnfoundIsNew ==
    ASSUME AnsweredInv, ~over, NEW o \in Origins, NEW i \in Ids, UnderWay(o, i),
           Found(ForgetExpired(entries), o, i) = {}
    PROVE  acted[o][i] = 0 \/ crowded[o][i]
<1>1. \A e \in Elements(ForgetExpired(entries)) : ~(e.origin = o /\ e.id = i)
    BY Zenon DEF Found, Elements
<1>2. ~(acted[o][i] > 0 /\ ~crowded[o][i])
    BY <1>1, ActedIsFound
<1>3. acted[o][i] \in 0..2
    BY SMTT(30) DEF AnsweredInv, Types
<1>4. QED
    BY <1>2, <1>3

\* Forgetting what is expired changes nothing that matters.
LEMMA ForgetStep ==
    ASSUME AnsweredInv, ~over, entries' = ForgetExpired(entries),
           UNCHANGED <<linked, over, message, acted, crowded>>
    PROVE  AnsweredInv'
<1> USE DEF AnsweredInv
<1>1. Types'
    BY Forgetting, Zenon DEF Types
<1>2. LiveEntriesDated'
    BY Forgetting, Zenon DEF LiveEntriesDated, Use, Live, AnswersUse
<1>3. LostForgotten'
    BY Forgetting, Zenon DEF LostForgotten, Use
<1>4. ActedRemembered'
    BY ActedIsFound, Zenon DEF ActedRemembered, UnderWay, AnswersUse
<1>5. QED
    BY <1>1, <1>2, <1>3, <1>4, Forgetting, Zenon DEF ActedOnce
\* A message is acted on and remembered.
LEMMA ActStep ==
    ASSUME AnsweredInv, NEW o \in Origins, NEW i \in Ids, Act(o, i)
    PROVE  AnsweredInv'
<1> USE DEF AnsweredInv
<1> DEFINE f == ForgetExpired(entries)
           m == message[o][i]
           s == ReplyTo(m)
           new == [origin |-> o, id |-> i, reply |-> s, age |-> 0]
<1>0. /\ m \in Uses /\ m.serial > 0 /\ m.age < Lifetime /\ ~m.lost
      /\ linked /\ ~over /\ linked' = linked /\ over' = over /\ message' = message
      /\ entries' = Remember(f, o, i, s)
    BY Zenon DEF Act, UnderWay, Types
<1>1. /\ f \in Seq(Entries)
      /\ Len(f) \in Nat /\ Len(f) <= MaxRemembered
      /\ Elements(f) \subseteq Elements(entries)
      /\ ForgetExpired(f) = f
      /\ \A e \in Elements(entries) : e \in Entries
    BY Forgetting
<1>2. s \in Replies /\ s.serial = m.serial /\ s.late = m.age
    BY <1>0, Zenon DEF Uses, Replies, ReplyTo
<1>3. acted[o][i] = 0 \/ crowded[o][i]
    BY UnfoundIsNew, Zenon DEF Act
<1> HIDE DEF f, s
<1>4. /\ new \in Entries
      /\ entries' \in Seq(Entries)
      /\ Len(entries') <= MaxRemembered
      /\ new \in Elements(entries')
      /\ Elements(entries') \subseteq Elements(f) \cup {new}
      /\ Len(f) < MaxRemembered => Elements(f) \subseteq Elements(entries')
      /\ Len(f) = MaxRemembered => Head(f) \in Elements(f)
      /\ Elements(f) \subseteq Elements(entries') \cup {Head(f)}
    <2> DEFINE r == Remember(f, o, i, s)
    <2>1. entries' = r
        BY <1>0, Zenon
    <2>2. /\ s \in Replies
          /\ f \in Seq(Entries) /\ ForgetExpired(f) = f /\ Len(f) <= MaxRemembered
        BY <1>1, <1>2, Zenon
    <2>3. LET e == [origin |-> o, id |-> i, reply |-> s, age |-> 0]
          IN  /\ e \in Entries
              /\ r \in Seq(Entries)
              /\ Len(r) <= MaxRemembered
              /\ e \in Elements(r)
              /\ Elements(r) \subseteq Elements(f) \cup {e}
              /\ Len(f) < MaxRemembered => Elements(f) \subseteq Elements(r)
              /\ Len(f) = MaxRemembered => Head(f) \in Elements(f)
              /\ Elements(f) \subseteq Elements(r) \cup {Head(f)}
        BY <2>2, MessageRemembered, ZenonT(60)
    <2> HIDE DEF r
    <2>4. QED
        BY <2>1, <2>3, ZenonT(60)
<1> HIDE DEF m
<1>5. \/ Len(f) < MaxRemembered /\ crowded' = crowded
      \/ /\ Len(f) = MaxRemembered
         /\ Head(f).origin \in Origins /\ Head(f).id \in Ids
         /\ crowded' = [crowded EXCEPT ![Head(f).origin][Head(f).id] = @ \/ AnswersUse(Head(f))]
    <2>1. MaxRemembered \in Nat
        BY MaxRememberedAssumption, Zenon
    <2>2. CASE Len(f) < MaxRemembered
        BY <2>2, Zenon DEF Act, f
    <2>3. CASE ~(Len(f) < MaxRemembered)
        <3>1. Head(f) \in Entries /\ Len(f) = MaxRemembered
            BY <1>1, <1>4, <2>1, <2>3, SMTT(30)
        <3>2. QED
            BY <2>3, <3>1, Zenon DEF Act, f, Entries
    <2>4. QED
        BY <2>2, <2>3, Zenon
<1>6. /\ acted' = [acted EXCEPT ![o][i] = UpTo(@, 2)]
      /\ acted' \in [Origins -> [Ids -> 0..2]]
      /\ \A p \in Origins, j \in Ids : p # o \/ j # i => acted'[p][j] = acted[p][j]
      /\ acted[o][i] = 0 => acted'[o][i] = 1
    BY SMTT(30) DEF Act, Types, UpTo
<1>7. /\ crowded' \in [Origins -> [Ids -> BOOLEAN]]
      /\ \A p \in Origins, j \in Ids : crowded[p][j] => crowded'[p][j]
    <2>1. crowded \in [Origins -> [Ids -> BOOLEAN]]
        BY Zenon DEF Types
    <2>2. ASSUME NEW p \in Origins, NEW j \in Ids, NEW b \in BOOLEAN,
                 crowded' = [crowded EXCEPT ![p][j] = @ \/ b]
          PROVE  /\ crowded' \in [Origins -> [Ids -> BOOLEAN]]
                 /\ \A q \in Origins, l \in Ids : crowded[q][l] => crowded'[q][l]
        BY <2>1, <2>2, Zenon
    <2>3. QED
        BY <1>5, <2>1, <2>2, Zenon DEF AnswersUse
<1>8. Types'
    BY <1>0, <1>4, <1>6, <1>7, ZenonT(60) DEF Types
<1>9. LiveEntriesDated'
    <2>1. ASSUME NEW e \in Elements(f) PROVE e \in Elements(entries)
        BY <1>1, Zenon
    <2>2. m.age <= new.age + new.reply.late /\ new.reply.serial = m.serial /\ m.serial > 0
        BY <1>0, <1>2, LifetimeAssumption DEF Uses
    <2>3. ASSUME NEW e, e = new
          PROVE  Use(e)'.serial > 0 /\ AnswersUse(e)' /\ Use(e)'.age <= e.age + e.reply.late
        <3>1. message'[e.origin][e.id] = m
            BY <1>0, <2>3, Zenon DEF m
        <3>2. QED
            BY <2>2, <2>3, <3>1, Zenon DEF Use, AnswersUse
    <2>4. ASSUME NEW e \in Elements(f), Live(e)
          PROVE  /\ Use(e)'.serial > 0
                 /\ \/ AnswersUse(e)' /\ Use(e)'.age <= e.age + e.reply.late
                    \/ Use(e)'.age + Lifetime <= e.age + e.reply.late
        BY <1>0, <2>1, <2>4, Zenon DEF LiveEntriesDated, Use, AnswersUse
    <2>5. \A e \in Elements(entries') : e \in Elements(f) \/ e = new
        BY <1>4, Zenon
    <2>6. ASSUME NEW e \in Elements(entries'), Live(e)
          PROVE  /\ Use(e)'.serial > 0
                 /\ \/ AnswersUse(e)' /\ Use(e)'.age <= e.age + e.reply.late
                    \/ Use(e)'.age + Lifetime <= e.age + e.reply.late
        BY <2>3, <2>4, <2>5, <2>6, Zenon
    <2>7. QED
        BY <2>6, Zenon DEF LiveEntriesDated, Live
<1>10. LostForgotten'
    BY <1>0, <1>1, <1>4, SMTT(30) DEF LostForgotten, Use, m
<1>11. ActedRemembered'
    <2> SUFFICES ASSUME NEW p \in Origins, NEW j \in Ids,
                        acted'[p][j] > 0, ~crowded'[p][j], UnderWay(p, j)
                 PROVE  \E e \in Elements(entries') :
                            e.origin = p /\ e.id = j /\ AnswersUse(e) /\ e.age <= message[p][j].age
        BY <1>0, Zenon DEF ActedRemembered, UnderWay, AnswersUse
    <2>1. CASE p = o /\ j = i
        <3>1. m.age \in 0..Lifetime /\ message[p][j] = m
            BY <1>0, <2>1, ZenonT(60) DEF Uses, m
        <3>2. new.origin = p /\ new.id = j /\ new.age = 0
            BY <2>1
        <3>3. new.origin = p /\ new.id = j /\ new.age <= message[p][j].age
            BY <3>1, <3>2
        <3>4. AnswersUse(new)
            BY <1>2, <2>1, <3>1, Zenon DEF AnswersUse
        <3>5. QED
            BY <1>4, <3>3, <3>4, Zenon
    <2>2. CASE p # o \/ j # i
        <3>1. acted[p][j] > 0 /\ ~crowded[p][j]
            BY <1>6, <1>7, <2>2, Zenon
        <3>2. PICK e \in Elements(f) :
                    e.origin = p /\ e.id = j /\ AnswersUse(e) /\ e.age <= message[p][j].age
            BY <1>0, <3>1, ActedIsFound, Zenon DEF f
        <3>3. e \in Elements(entries')
            <4>1. CASE Len(f) < MaxRemembered
                BY <1>4, <4>1, Zenon
            <4>2. CASE Len(f) = MaxRemembered /\ e = Head(f)
                <5>1. crowded' = [crowded EXCEPT ![p][j] = @ \/ AnswersUse(e)]
                    BY <1>5, <3>2, <4>2
                <5>2. crowded'[p][j]
                    BY <3>2, <5>1, Zenon DEF Types
                <5>3. QED
                    BY <5>2, Zenon
            <4>3. CASE e # Head(f)
                BY <1>4, <4>3, Zenon
            <4>4. QED
                BY <1>5, <4>1, <4>2, <4>3, Zenon
        <3>4. QED
            BY <3>2, <3>3, Zenon
    <2>3. QED
        BY <2>1, <2>2, Zenon
<1>12. ActedOnce'
    BY <1>3, <1>6, <1>7 DEF ActedOnce
<1>13. QED
    BY <1>4, <1>8, <1>9, <1>10, <1>11, <1>12, Zenon

\* The session ends, so that the message will not be acted on once more.
LEMMA ReplyFailsStep ==
    ASSUME AnsweredInv, NEW o \in Origins, NEW i \in Ids, ReplyFails(o, i)
    PROVE  AnsweredInv'
<1> USE DEF AnsweredInv
<1>1. /\ ~over /\ linked' = FALSE /\ over' = TRUE /\ entries' = ForgetExpired(entries)
      /\ message' = message /\ crowded' = crowded
    BY Zenon DEF ReplyFails
<1>2. /\ acted' \in [Origins -> [Ids -> 0..2]]
      /\ ActedOnce'
    <2>1. CASE acted' = acted
        BY <1>1, <2>1, Zenon DEF Types, ActedOnce
    <2>2. CASE /\ Found(ForgetExpired(entries), o, i) = {}
               /\ acted' = [acted EXCEPT ![o][i] = UpTo(@, 2)]
        <3>1. acted[o][i] = 0 \/ crowded[o][i]
            BY <2>2, UnfoundIsNew, Zenon DEF ReplyFails
        <3>2. QED
            BY <1>1, <2>2, <3>1 DEF Types, UpTo, ActedOnce
    <2>3. QED
        BY <2>1, <2>2, Zenon DEF ReplyFails
<1>3. Types'
    BY <1>1, <1>2, Forgetting, Zenon DEF Types
<1>4. LiveEntriesDated'
    BY <1>1, Forgetting, Zenon DEF LiveEntriesDated, Use, Live, AnswersUse
<1>5. LostForgotten' /\ ActedRemembered'
    BY <1>1, Zenon DEF LostForgotten, ActedRemembered
<1>6. QED
    BY <1>1, <1>2, <1>3, <1>4, <1>5, Forgetting, Zenon

\* What the border agent sent in the closed session is lost.
LEMMA CloseStep ==
    ASSUME AnsweredInv, Close
    PROVE  AnsweredInv'
<1> USE DEF AnsweredInv
<1>1. /\ ~over /\ over' = over /\ linked' = FALSE /\ entries' = entries
      /\ acted' = acted /\ crowded' = crowded
    BY Zenon DEF Close
<1>2. /\ message' \in [Origins -> [Ids -> Uses]]
      /\ \A i \in Ids : message'[BorderAgent][i].lost
      /\ \A o \in Origins, i \in Ids :
            /\ message'[o][i].serial = message[o][i].serial
            /\ message'[o][i].age = message[o][i].age
            /\ o # BorderAgent => message'[o][i] = message[o][i]
    <2>1. message \in [Origins -> [Ids -> Uses]] /\ BorderAgent \in Origins
        BY Zenon DEF Types, Origins
    <2> DEFINE Lost(u) == [u EXCEPT !.lost = TRUE]
    <2>2. ASSUME NEW u \in Uses
          PROVE  /\ Lost(u) \in Uses
                 /\ Lost(u).lost = TRUE
                 /\ Lost(u).serial = u.serial
                 /\ Lost(u).age = u.age
        BY Zenon DEF Uses
    <2>3. message' = [message EXCEPT ![BorderAgent] =
                         [i \in Ids |-> Lost(message[BorderAgent][i])]]
        BY <2>1, Zenon DEF Close
    <2> HIDE DEF Lost
    <2>4. [i \in Ids |-> Lost(message[BorderAgent][i])] \in [Ids -> Uses]
        BY <2>1, <2>2, Zenon
    <2>5. message' \in [Origins -> [Ids -> Uses]]
        BY <2>1, <2>3, <2>4, Zenon
    <2>6. \A i \in Ids : message'[BorderAgent][i] = Lost(message[BorderAgent][i])
        BY <2>1, <2>3, Zenon
    <2>7. \A o \in Origins : o # BorderAgent => message'[o] = message[o]
        BY <2>1, <2>3, Zenon
    <2>8. \A i \in Ids : message[BorderAgent][i] \in Uses
        BY <2>1, Zenon
    <2>9. ASSUME NEW o \in Origins, NEW i \in Ids
          PROVE  /\ message'[o][i].serial = message[o][i].serial
                 /\ message'[o][i].age = message[o][i].age
                 /\ o # BorderAgent => message'[o][i] = message[o][i]
        <3>1. CASE o = BorderAgent
            BY <2>2, <2>6, <2>8, <3>1, Zenon
        <3>2. CASE o # BorderAgent
            BY <2>7, <3>2, Zenon
        <3>3. QED
            BY <3>1, <3>2, Zenon
    <2>10. \A i \in Ids : message'[BorderAgent][i].lost
        BY <2>2, <2>6, <2>8, Zenon
    <2>11. QED
        BY <2>5, <2>9, <2>10, Zenon
<1>3. Types'
    BY <1>1, <1>2, Zenon DEF Types
<1>4. \A e \in Elements(entries) : e \in Entries
    BY DEF Types, Elements
<1>5. LiveEntriesDated'
    <2> SUFFICES ASSUME NEW e \in Elements(entries), Live(e)
                 PROVE  /\ Use(e)'.serial > 0
                        /\ \/ AnswersUse(e)' /\ Use(e)'.age <= e.age + e.reply.late
                           \/ Use(e)'.age + Lifetime <= e.age + e.reply.late
        BY <1>1, Zenon DEF LiveEntriesDated, Live
    <2>1. e.origin \in Origins /\ e.id \in Ids
        BY <1>4, Zenon DEF Entries
    <2>2. /\ message'[e.origin][e.id].serial = message[e.origin][e.id].serial
          /\ message'[e.origin][e.id].age = message[e.origin][e.id].age
        BY <1>2, <2>1, Zenon
    <2>3. /\ Use(e).serial > 0
          /\ \/ AnswersUse(e) /\ Use(e).age <= e.age + e.reply.late
             \/ Use(e).age + Lifetime <= e.age + e.reply.late
        BY Zenon DEF LiveEntriesDated
    <2>4. QED
        BY <2>2, <2>3, Zenon DEF Use, AnswersUse
<1>6. LostForgotten'
    BY <1>1, <1>2 DEF LostForgotten
<1>7. ActedRemembered'
    <2> SUFFICES ASSUME NEW o \in Origins, NEW i \in Ids,
                        acted[o][i] > 0, ~crowded[o][i], UnderWay(o, i)'
                 PROVE  \E e \in Elements(entries) :
                            e.origin = o /\ e.id = i /\ AnswersUse(e)' /\ e.age <= message'[o][i].age
        BY <1>1, Zenon DEF ActedRemembered
    <2>1. o # BorderAgent
        BY <1>2, Zenon DEF UnderWay
    <2>2. message'[o][i] = message[o][i]
        BY <1>2, <2>1, Zenon
    <2>3. PICK e \in Elements(entries) :
                e.origin = o /\ e.id = i /\ AnswersUse(e) /\ e.age <= message[o][i].age
        BY <1>1, <2>2, Zenon DEF ActedRemembered, UnderWay
    <2>4. QED
        BY <2>2, <2>3, Zenon DEF AnswersUse
<1>8. QED
    BY <1>1, <1>3, <1>5, <1>6, <1>7, Zenon DEF ActedOnce

\* A new session starts without the border agent's entries and with all others.
LEMMA ReopenStep ==
    ASSUME AnsweredInv, Reopen
    PROVE  AnsweredInv'
<1> USE DEF AnsweredInv
<1>1. /\ ~over /\ over' = over /\ ~linked /\ linked' = TRUE
      /\ entries' = ForgetBorderAgent(entries)
      /\ message' = message /\ acted' = acted /\ crowded' = crowded
    BY Zenon DEF Reopen
<1>2. entries \in Seq(Entries) /\ MaxRemembered \in Nat
    BY MaxRememberedAssumption, Zenon DEF Types
<1>3. /\ entries' \in Seq(Entries)
      /\ Len(entries') <= Len(entries)
      /\ Elements(entries') = {e \in Elements(entries) : e.origin # BorderAgent}
    BY <1>1, <1>2, BorderAgentForgotten, Zenon
<1>4. Len(entries') <= MaxRemembered
    BY <1>2, <1>3
<1>5. Types'
    BY <1>1, <1>3, Zenon DEF Types
<1>6. \A e \in Elements(entries) : e \in Entries
    BY <1>2, SMTT(30) DEF Elements
<1>7. LiveEntriesDated'
    BY <1>1, <1>3, Zenon DEF LiveEntriesDated, Use, Live, AnswersUse
<1>8. LostForgotten'
    BY <1>1, <1>3, <1>6, Zenon DEF LostForgotten, Use, Entries
<1>9. ActedRemembered'
    <2> SUFFICES ASSUME NEW o \in Origins, NEW i \in Ids,
                        acted[o][i] > 0, ~crowded[o][i], UnderWay(o, i)
                 PROVE  \E e \in Elements(entries') :
                            e.origin = o /\ e.id = i /\ AnswersUse(e) /\ e.age <= message[o][i].age
        BY <1>1, Zenon DEF ActedRemembered, UnderWay, AnswersUse
    <2>1. o # BorderAgent
        BY <1>1, Zenon DEF LostForgotten, UnderWay
    <2>2. PICK e \in Elements(entries) :
                e.origin = o /\ e.id = i /\ AnswersUse(e) /\ e.age <= message[o][i].age
        BY <1>1, Zenon DEF ActedRemembered
    <2>3. QED
        BY <1>3, <2>1, <2>2, Zenon
<1>10. QED
    BY <1>1, <1>4, <1>5, <1>7, <1>8, <1>9, Zenon DEF ActedOnce

\* An entry and its message grow older together.
LEMMA TickStep ==
    ASSUME AnsweredInv, TimePasses
    PROVE  AnsweredInv'
<1> USE DEF AnsweredInv
<1>1. /\ over' = over /\ linked' = linked /\ acted' = acted /\ crowded' = crowded
    BY Zenon DEF TimePasses
<1>2. entries \in Seq(Entries)
    BY Zenon DEF Types
<1>3. /\ entries' \in Seq(Entries)
      /\ Len(entries') = Len(entries)
      /\ Elements(entries') = {Older(e) : e \in Elements(entries)}
    <2>1. entries' = [k \in 1..Len(entries) |-> Older(entries[k])]
        BY Zenon DEF TimePasses, Older
    <2> HIDE DEF Older
    <2>2. QED
        BY <1>2, <2>1, EntriesAge, Zenon
<1>4. \A e \in Elements(entries) : e \in Entries
    BY <1>2 DEF Elements
<1>5. ASSUME NEW e \in Entries
      PROVE  /\ Older(e).origin = e.origin /\ Older(e).id = e.id
             /\ Older(e).reply = e.reply
             /\ Older(e).age = UpTo(e.age, Lifetime)
    BY Zenon DEF Entries, Older
<1>6. ASSUME NEW o \in Origins, NEW i \in Ids
      PROVE  /\ message'[o][i] \in Uses
             /\ message'[o][i].serial = message[o][i].serial
             /\ message'[o][i].lost = message[o][i].lost
             /\ message'[o][i].age = UpTo(message[o][i].age, Lifetime)
    <2>1. message[o][i] \in Uses
        BY Zenon DEF Types
    <2>2. message'[o][i] = [message[o][i] EXCEPT !.age = UpTo(@, Lifetime)]
        BY Zenon DEF TimePasses
    <2>3. UpTo(message[o][i].age, Lifetime) \in 0..Lifetime
        BY <2>1, LifetimeAssumption DEF Uses, UpTo
    <2> HIDE DEF UpTo
    <2>4. QED
        BY <2>1, <2>2, <2>3, Zenon DEF Uses
<1>7. message' \in [Origins -> [Ids -> Uses]]
    BY <1>6, Zenon DEF TimePasses
<1>8. Types'
    BY <1>1, <1>3, <1>7, Zenon DEF Types
<1>9. LiveEntriesDated'
    <2> SUFFICES ASSUME NEW e \in Elements(entries), Live(Older(e))
                 PROVE  LET u == message'[e.origin][e.id]
                        IN  /\ u.serial > 0
                            /\ \/ e.reply.serial = u.serial /\ u.age <= Older(e).age + e.reply.late
                               \/ u.age + Lifetime <= Older(e).age + e.reply.late
        <3>1. ASSUME NEW e \in Elements(entries)
              PROVE  /\ Older(e).origin = e.origin /\ Older(e).id = e.id
                     /\ Older(e).reply = e.reply
            BY <1>4, <1>5, Zenon
        <3> HIDE DEF Older
        <3>2. ASSUME NEW f \in Elements(entries'), Live(f)
              PROVE  /\ Use(f)'.serial > 0
                     /\ \/ AnswersUse(f)' /\ Use(f)'.age <= f.age + f.reply.late
                        \/ Use(f)'.age + Lifetime <= f.age + f.reply.late
            <4>1. PICK e \in Elements(entries) : f = Older(e)
                BY <1>3, Zenon
            <4>2. f.origin = e.origin /\ f.id = e.id /\ f.reply = e.reply
                BY <3>1, <4>1, Zenon
            <4>3. LET u == message'[e.origin][e.id]
                  IN  /\ u.serial > 0
                      /\ \/ e.reply.serial = u.serial /\ u.age <= Older(e).age + e.reply.late
                         \/ u.age + Lifetime <= Older(e).age + e.reply.late
                BY <3>2, <4>1, Zenon
            <4>4. QED
                BY <4>1, <4>2, <4>3, Zenon DEF Use, AnswersUse
        <3>3. QED
            BY <3>2, Zenon DEF LiveEntriesDated, Live
    <2>1. /\ e \in Entries /\ e.origin \in Origins /\ e.id \in Ids /\ e.age \in 0..Lifetime
          /\ e.reply.late \in 0..Lifetime
        BY <1>4, Zenon DEF Entries, Replies
    <2>2. e.age < Lifetime /\ Older(e).age = e.age + 1
        BY <1>5, <2>1, LifetimeAssumption, Zenon DEF Live, UpTo
    <2>3. /\ Use(e).serial > 0
          /\ \/ AnswersUse(e) /\ Use(e).age <= e.age + e.reply.late
             \/ Use(e).age + Lifetime <= e.age + e.reply.late
        BY <2>2, Zenon DEF LiveEntriesDated, Live
    <2>4. Use(e).age \in Nat
        BY <2>1 DEF Types, Uses, Use
    <2>5. message'[e.origin][e.id].age <= Use(e).age + 1
        <3>1. message'[e.origin][e.id].age = UpTo(Use(e).age, Lifetime)
            BY <1>6, <2>1, Zenon DEF Use
        <3> HIDE DEF Use
        <3>2. QED
            BY <3>1, <2>4, LifetimeAssumption DEF UpTo
    <2>6. message'[e.origin][e.id].age \in Nat
        BY <1>6, <2>1 DEF Uses
    <2>7. message'[e.origin][e.id].serial = Use(e).serial
        BY <1>6, <2>1, Zenon DEF Use
    <2> DEFINE now == message'[e.origin][e.id].age
               before == Use(e).age
               late == e.reply.late
    <2> HIDE DEF now, before, late
    <2>8. /\ before <= e.age + late => now <= Older(e).age + late
          /\ before + Lifetime <= e.age + late => now + Lifetime <= Older(e).age + late
        <3>1. e.age \in Nat /\ late \in Nat /\ now \in Nat /\ before \in Nat /\ now <= before + 1
            BY <2>1, <2>4, <2>5, <2>6, LifetimeAssumption DEF now, before, late
        <3>2. Older(e).age = e.age + 1 /\ Lifetime \in Nat
            BY <2>2, LifetimeAssumption, Zenon
        <3>3. QED
            BY <3>1, <3>2
    <2>9. QED
        BY <2>3, <2>7, <2>8, Zenon DEF now, before, late, Use, AnswersUse
<1>10. LostForgotten'
    <2> HIDE DEF Older, UpTo
    <2>1. \A e \in Elements(entries) : Use(Older(e))'.lost = Use(e).lost
        BY <1>4, <1>5, <1>6, Zenon DEF Use, Entries
    <2>2. BorderAgent \in Origins
        BY Zenon DEF Origins
    <2>3. QED
        BY <1>1, <1>3, <1>6, <2>1, <2>2, SMTT(30) DEF LostForgotten
<1>11. ActedRemembered'
    <2> SUFFICES ASSUME ~over, NEW o \in Origins, NEW i \in Ids,
                        acted[o][i] > 0, ~crowded[o][i], UnderWay(o, i)'
                 PROVE  \E e \in Elements(entries') :
                            e.origin = o /\ e.id = i /\ AnswersUse(e)' /\ e.age <= message'[o][i].age
        BY <1>1, Zenon DEF ActedRemembered
    <2>1. message[o][i].age \in 0..Lifetime
        BY Zenon DEF Types, Uses
    <2>2. /\ message[o][i].age < Lifetime
          /\ message'[o][i].age = message[o][i].age + 1
        BY <1>6, <2>1, LifetimeAssumption, SMTT(30) DEF UnderWay, UpTo
    <2>3. UnderWay(o, i)
        BY <1>6, <2>2, Zenon DEF UnderWay
    <2>4. PICK e \in Elements(entries) :
                e.origin = o /\ e.id = i /\ AnswersUse(e) /\ e.age <= message[o][i].age
        BY <2>3, Zenon DEF ActedRemembered
    <2>5. e \in Entries /\ e.age \in 0..Lifetime
        BY <1>4, Zenon DEF Entries
    <2>6. Older(e).age <= message'[o][i].age
        BY <1>5, <2>1, <2>2, <2>4, <2>5, LifetimeAssumption DEF UpTo
    <2> HIDE DEF Older
    <2>7. Older(e).origin = e.origin /\ Older(e).id = e.id /\ Older(e).reply = e.reply
        BY <1>5, <2>5, Zenon
    <2>8. AnswersUse(Older(e))'
        BY <1>6, <2>4, <2>7, Zenon DEF AnswersUse
    <2>9. QED
        BY <1>3, <2>4, <2>6, <2>7, <2>8, Zenon
<1>12. QED
    BY <1>1, <1>3, <1>8, <1>9, <1>10, <1>11, Zenon DEF ActedOnce

-----------------------------------------------------------------------------
(* The theorems *)

\* AnsweredInv holds of the initial states and is kept by every step.
LEMMA InvHolds == AnsweredSpec => []AnsweredInv
<1>1. AnsweredInit => AnsweredInv
    <2> SUFFICES ASSUME AnsweredInit PROVE AnsweredInv
        BY Zenon
    <2>1. Elements(entries) = {} /\ Len(entries) = 0
        BY DEF AnsweredInit, Elements
    <2>2. [serial |-> 0, age |-> 0, lost |-> FALSE] \in Uses
        BY LifetimeAssumption DEF Uses
    <2>3. Types
        <3> DEFINE unused == [serial |-> 0, age |-> 0, lost |-> FALSE]
        <3>1. message = [o \in Origins |-> [i \in Ids |-> unused]]
            BY Zenon DEF AnsweredInit
        <3>2. unused \in Uses
            BY <2>2, Zenon
        <3> HIDE DEF unused
        <3>3. message \in [Origins -> [Ids -> Uses]]
            BY <3>1, <3>2, Zenon
        <3>4. entries \in Seq(Entries) /\ acted \in [Origins -> [Ids -> 0..2]]
            BY DEF AnsweredInit
        <3>5. /\ linked \in BOOLEAN /\ over \in BOOLEAN
              /\ crowded \in [Origins -> [Ids -> BOOLEAN]]
            BY Zenon DEF AnsweredInit
        <3>6. QED
            BY <3>3, <3>4, <3>5, Zenon DEF Types
    <2>4. QED
        BY <2>1, <2>3, MaxRememberedAssumption, SMTT(30)
           DEF AnsweredInit, AnsweredInv, LiveEntriesDated, LostForgotten, ActedRemembered, ActedOnce
<1>2. AnsweredInv /\ [AnsweredNext]_answeredVars => AnsweredInv'
    <2> SUFFICES ASSUME AnsweredInv, [AnsweredNext]_answeredVars PROVE AnsweredInv'
        BY Zenon
    <2>1. ASSUME NEW o \in Origins, NEW i \in Ids, AnswerAgain(o, i) \/ Drop(o, i)
          PROVE  AnsweredInv'
        BY <2>1, ForgetStep, Zenon DEF AnswerAgain, Drop
    <2>2. CASE UNCHANGED answeredVars
        BY <2>2, Zenon DEF answeredVars, AnsweredInv, Types, LiveEntriesDated, LostForgotten,
           ActedRemembered,
                    ActedOnce, Use, UnderWay, AnswersUse
    <2>3. QED
        BY <2>1, <2>2, SendStep, ActStep, ReplyFailsStep, CloseStep, ReopenStep, TickStep, Zenon
           DEF AnsweredNext
<1>3. QED
    BY <1>1, <1>2, PTL DEF AnsweredSpec

\* A reply that is remembered is given to copies of the message it answered.  The
\* driver takes a new message for a retransmission of an old one only while the new
\* one is younger than the old one was when it was answered, however IDs are used
\* again after their lifetime and sessions reopened.
THEOREM RepliesBelongHolds == AnsweredSpec => []RepliesBelong
<1>1. AnsweredInv => RepliesBelong
    <2> SUFFICES ASSUME AnsweredInv, NEW e \in Elements(entries), Live(e)
                 PROVE  AnswersUse(e) \/ message[e.origin][e.id].age < e.reply.late
        BY Zenon DEF RepliesBelong, Elements
    <2>1. AnswersUse(e) \/ Use(e).age + Lifetime <= e.age + e.reply.late
        BY Zenon DEF AnsweredInv, LiveEntriesDated
    <2>2. e \in Entries /\ Use(e) \in Uses
        <3>1. e \in Entries
            BY Forgetting, Zenon
        <3>2. QED
            BY <3>1, Zenon DEF AnsweredInv, Types, Entries, Use
    <2>3. /\ e.age \in Nat /\ e.reply.late \in Nat /\ e.age < Lifetime
          /\ Use(e).age \in Nat /\ Lifetime \in Nat
        BY <2>2, LifetimeAssumption DEF Entries, Replies, Uses, Live
    <2>4. AnswersUse(e) \/ Use(e).age < e.reply.late
        BY <2>1, <2>3
    <2>5. QED
        BY <2>4, Zenon DEF Use
<1>2. QED
    BY <1>1, InvHolds, PTL

\* The driver acts once on a message, however its copies are delayed, repeated and
\* reordered and however often the session is reopened, unless its reply had to make
\* room for MaxRemembered later ones.
THEOREM ActedOnceHolds == AnsweredSpec => []ActedOnce
<1>1. AnsweredInv => ActedOnce
    BY Zenon DEF AnsweredInv
<1>2. QED
    BY <1>1, InvHolds, PTL
=============================================================================
