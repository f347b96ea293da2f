----------------------------- MODULE RecordLayer -----------------------------
(***************************************************************************)
(* An established DTLS session (meshcop-dtls/src/driver.rs, SessionState): *)
(* the peer protects records and packs them into datagrams, the network    *)
(* loses, repeats, reorders and damages the datagrams, and the receiver    *)
(* opens the records one by one through the anti-replay window.            *)
(*                                                                         *)
(* A damaged record is one that does not authenticate.  Handshake records  *)
(* of the peer may still arrive: a repeated Finished takes a protected     *)
(* sequence number, an unprotected record of the epoch before has numbers  *)
(* of its own.                                                             *)
(***************************************************************************)
EXTENDS ReplayWindow, Sequences

CONSTANTS
    MaxSequence,    \* bound on the sequence numbers the peer uses
    MaxBundle,      \* bound on the records in one datagram
    MaxFinished     \* bound on the copies of its Finished the peer has sent

ASSUME MaxSequenceAssumption == MaxSequence \in Nat
ASSUME MaxBundleAssumption == MaxBundle \in Nat \ {0}
ASSUME MaxFinishedAssumption == MaxFinished \in Nat

VARIABLES
    next,       \* the peer's next_application_sequence
    wire,       \* the datagrams the peer has sent; any may arrive at any time
    unread,     \* SessionState::unread_records
    window,     \* SessionState::application_replay
    opened,     \* the sequence numbers of the records returned to the caller
    returned,   \* how many records were returned to the caller
    closed      \* an authenticated alert was returned; the session is dropped

recordVars == <<next, wire, unread, window, opened, returned, closed>>

Record == [kind : {"data", "alert", "handshake"}, seq : Nat, intact : BOOLEAN]

\* protect_record, called once for each of the n records of a datagram.
Datagram(first, n, last) ==
    [i \in 1..n |-> [kind |-> IF i = n THEN last ELSE "data",
                     seq |-> first + i - 1, intact |-> TRUE]]

\* Mutant of SendDatagram: the counter advances once per datagram.
SendWithoutCounting(n, last) ==
    /\ next + n <= MaxSequence
    /\ wire' = wire \cup {Datagram(next, n, last)}
    /\ next' = next + 1
    /\ UNCHANGED <<unread, window, opened, returned, closed>>

SendDatagram(n, last) ==
    /\ next + n <= MaxSequence
    /\ wire' = wire \cup {Datagram(next, n, last)}
    /\ next' = next + n
    /\ UNCHANGED <<unread, window, opened, returned, closed>>

\* receive_datagram: a datagram is only asked for once no record is left.
\* Any of its records may have been damaged on the way.
ReceiveDatagram(d, damaged) ==
    /\ ~closed
    /\ unread = <<>>
    /\ unread' = [i \in 1..Len(d) |->
                    [kind |-> d[i].kind, seq |-> d[i].seq, intact |-> i \notin damaged]]
    /\ UNCHANGED <<next, wire, window, opened, returned, closed>>

\* A handshake record of the epoch before that arrives late.
ReceiveHandshake(s) ==
    /\ ~closed
    /\ unread = <<>>
    /\ unread' = <<[kind |-> "handshake", seq |-> s, intact |-> TRUE]>>
    /\ UNCHANGED <<next, wire, window, opened, returned, closed>>

\* open_protected_record succeeds, for a record open_next_record tries.
Usable(r) ==
    /\ r.kind \in {"data", "alert"}
    /\ ~HasSeen(window, r.seq)
    /\ r.intact

\* Mutant of OpenRecord: the window is marked before authentication.
OpenMarkingFirst ==
    /\ ~closed
    /\ unread # <<>>
    /\ LET r == Head(unread)
       IN  /\ window' = IF r.kind = "handshake" \/ HasSeen(window, r.seq)
                        THEN window ELSE MarkSeen(window, r.seq)
           /\ opened' = IF Usable(r) THEN opened \cup {r.seq} ELSE opened
           /\ returned' = IF Usable(r) THEN returned + 1 ELSE returned
           /\ closed' = (Usable(r) /\ r.kind = "alert")
    /\ unread' = Tail(unread)
    /\ UNCHANGED <<next, wire>>

\* Mutant of OpenRecord: the rest of the datagram is dropped.
OpenDroppingRest ==
    /\ ~closed
    /\ \E i \in 1..Len(unread) :
          /\ Usable(unread[i])
          /\ \A j \in 1..(i - 1) : ~Usable(unread[j])
          /\ window' = MarkSeen(window, unread[i].seq)
          /\ opened' = opened \cup {unread[i].seq}
          /\ returned' = returned + 1
          /\ closed' = (unread[i].kind = "alert")
    /\ unread' = <<>>
    /\ UNCHANGED <<next, wire>>

\* open_next_record: discards records up to the first usable one and returns
\* it, leaving the rest queued.
OpenRecord ==
    /\ ~closed
    /\ \E i \in 1..Len(unread) :
          /\ Usable(unread[i])
          /\ \A j \in 1..(i - 1) : ~Usable(unread[j])
          /\ window' = MarkSeen(window, unread[i].seq)
          /\ opened' = opened \cup {unread[i].seq}
          /\ returned' = returned + 1
          /\ closed' = (unread[i].kind = "alert")
          /\ unread' = SubSeq(unread, i + 1, Len(unread))
    /\ UNCHANGED <<next, wire>>

\* open_next_record without a usable record: all are discarded.
DiscardRecords ==
    /\ ~closed
    /\ unread # <<>>
    /\ \A i \in 1..Len(unread) : ~Usable(unread[i])
    /\ unread' = <<>>
    /\ UNCHANGED <<next, wire, window, opened, returned, closed>>

\* The handshake is over.  The peer's Finished took the first protected
\* sequence numbers, one for each copy; a client opened one of the copies
\* through this window, a server did not.
RecordInit ==
    /\ next \in 0..MaxFinished
    /\ wire = {}
    /\ unread = <<>>
    /\ \/ opened = {} /\ window = EmptyWindow
       \/ \E s \in 0..(next - 1) : opened = {s} /\ window = MarkSeen(EmptyWindow, s)
    /\ returned = 0
    /\ closed = FALSE

RecordNext ==
    \/ \E n \in 1..MaxBundle, last \in {"data", "alert", "handshake"} :
            SendDatagram(n, last)
    \/ \E d \in wire : \E damaged \in SUBSET (1..Len(d)) : ReceiveDatagram(d, damaged)
    \/ \E s \in 0..(MaxSequence - 1) : ReceiveHandshake(s)
    \/ OpenRecord
    \/ DiscardRecords

RecordSpec == RecordInit /\ [][RecordNext]_recordVars

\* The caller keeps polling for the next record.
FairSpec == RecordSpec /\ WF_recordVars(OpenRecord \/ DiscardRecords)

-----------------------------------------------------------------------------
(* Properties *)

\* Every variable has its type.
RecordTypeOK ==
    /\ next \in Nat
    /\ wire \subseteq Seq(Record)
    /\ unread \in Seq(Record)
    /\ window \in Windows
    /\ opened \subseteq 0..(next - 1)
    /\ returned \in Nat
    /\ closed \in BOOLEAN

\* The window neither forgets nor invents: it reports a sequence number as seen
\* exactly when that record was returned, or lies Width or more behind the newest
\* one returned.  Damaged, repeated and handshake records leave no trace in it.
WindowExact ==
    \A s \in 0..(MaxSequence - 1) :
        HasSeen(window, s) <=>
            \/ s \in opened
            \/ \E n \in opened : s + Width <= n

\* The session implements the channel: nothing is delivered twice, nothing that
\* the peer did not protect is delivered, and nothing follows an alert.
Channel == INSTANCE RecordChannel WITH sent <- next, received <- opened,
                                      deliveries <- returned
ImplementsChannel == Channel!Spec

\* A record that arrives intact, new and inside the window is not lost to the
\* records it shares a datagram with: it is returned by a later call, unless an
\* alert ends the session or the window moves past it first.
FreshRecordsDelivered ==
    \A s \in 0..(MaxSequence - 1) :
        (\E i \in 1..Len(unread) : Usable(unread[i]) /\ unread[i].seq = s)
            ~> (s \in opened \/ closed \/ HasSeen(window, s))
=============================================================================
