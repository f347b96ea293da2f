----------------------------- MODULE Subscription -----------------------------
(***************************************************************************)
(* One subscription to the session's events (commissioner/events.rs) over  *)
(* the bounded broadcast channel that the driver publishes to.  The        *)
(* channel keeps the newest Capacity events.                               *)
(***************************************************************************)
EXTENDS Integers, Sequences

CONSTANT Capacity   \* event_capacity

ASSUME CapacityAssumption == Capacity \in Nat \ {0}

VARIABLES
    log,        \* history: every event published
    sending,    \* the driver still holds the sending end
    position,   \* how many events the subscriber has passed
    heard,      \* the newest event it was given
    missed,     \* how many events it was told it missed
    got,        \* how many events it was given
    ended       \* it was told that the session has ended

subscription == <<log, sending, position, heard, missed, got, ended>>

SubscriptionInit ==
    /\ log = <<>>
    /\ sending = TRUE
    /\ position = 0
    /\ heard = 0
    /\ missed = 0
    /\ got = 0
    /\ ended = FALSE

\* Driver::publish: nobody is waited for.
Publish(event) ==
    /\ log' = Append(log, event)
    /\ UNCHANGED <<sending, position, heard, missed, got, ended>>

\* The driver task ends.
CloseChannel ==
    /\ sending' = FALSE
    /\ UNCHANGED <<log, position, heard, missed, got, ended>>

Oldest == IF Len(log) > Capacity THEN Len(log) - Capacity ELSE 0

\* Mutant of NextEvent: a lagging subscriber is taken to the newest event.
NextEventSkipping ==
    /\ ~ended
    /\ \/ /\ position < Oldest
          /\ missed' = missed + Oldest - position
          /\ position' = Len(log)
          /\ UNCHANGED <<heard, got, ended>>
       \/ /\ position >= Oldest
          /\ position < Len(log)
          /\ position' = position + 1
          /\ heard' = log[position + 1]
          /\ got' = got + 1
          /\ UNCHANGED <<missed, ended>>
       \/ /\ position = Len(log)
          /\ ~sending
          /\ ended' = TRUE
          /\ UNCHANGED <<position, heard, missed, got>>
    /\ UNCHANGED <<log, sending>>

\* Events::poll_next: a subscriber that fell behind is told how far and goes
\* on with the oldest event still buffered; the end comes after every event.
NextEvent ==
    /\ ~ended
    /\ \/ /\ position < Oldest
          /\ missed' = missed + Oldest - position
          /\ position' = Oldest
          /\ UNCHANGED <<heard, got, ended>>
       \/ /\ position >= Oldest
          /\ position < Len(log)
          /\ position' = position + 1
          /\ heard' = log[position + 1]
          /\ got' = got + 1
          /\ UNCHANGED <<missed, ended>>
       \/ /\ position = Len(log)
          /\ ~sending
          /\ ended' = TRUE
          /\ UNCHANGED <<position, heard, missed, got>>
    /\ UNCHANGED <<log, sending>>

\* Every event published was given to the subscriber or counted as missed by
\* the time it is told that the session has ended.
EventsAccounted ==
    /\ got + missed = position
    /\ position <= Len(log)
    /\ ended => position = Len(log)
=============================================================================
