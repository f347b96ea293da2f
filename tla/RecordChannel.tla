---------------------------- MODULE RecordChannel ----------------------------
(***************************************************************************)
(* What an established DTLS session promises the code above it: of the     *)
(* records the peer protected, each is delivered at most once and nothing  *)
(* else is, in any order and possibly never, until an alert ends it.       *)
(***************************************************************************)
EXTENDS Integers

VARIABLES
    sent,       \* how many records the peer has protected
    received,   \* the numbers of the records delivered
    deliveries, \* how often a record was delivered
    closed      \* an authenticated alert was delivered

\* The handshake may have used the first records.
Init ==
    /\ sent \in Nat
    /\ received \subseteq 0..(sent - 1)
    /\ deliveries = 0
    /\ closed = FALSE

Send ==
    /\ sent' \in Nat /\ sent' > sent
    /\ UNCHANGED <<received, deliveries, closed>>

Deliver ==
    /\ ~closed
    /\ \E s \in 0..(sent - 1) : s \notin received /\ received' = received \cup {s}
    /\ deliveries' = deliveries + 1
    /\ closed' \in BOOLEAN
    /\ UNCHANGED sent

Next == Send \/ Deliver

Spec == Init /\ [][Next]_<<sent, received, deliveries, closed>>
=============================================================================
