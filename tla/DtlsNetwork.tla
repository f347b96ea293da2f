----------------------------- MODULE DtlsNetwork -----------------------------
(***************************************************************************)
(* The UDP path between a DTLS client and a DTLS server: a datagram is     *)
(* delivered in any order, lost or delivered again.  The bounds limit how  *)
(* often the network misbehaves, not when.                                 *)
(***************************************************************************)
EXTENDS DtlsMessages

CONSTANTS
    MaxFaults,      \* bound on datagrams lost or delivered once more, flights split, early timers and deadlines
    MaxRecords,     \* bound on the sealed records an endpoint sends
    MaxDuplicateRetransmissions     \* the constant of that name in driver.rs

ASSUME NetworkBounds == MaxFaults \in Nat /\ MaxRecords \in Nat
ASSUME BudgetAssumption == MaxDuplicateRetransmissions \in Nat

VARIABLES
    net,        \* the datagrams under way: [to, from, records]
    wire,       \* history: every record sent, with its sender
    faults      \* how much has gone wrong

network == <<net, wire, faults>>

NetworkInit == net = {} /\ wire = {} /\ faults = 0

Fault ==
    /\ faults < MaxFaults
    /\ faults' = faults + 1

\* send_records: the records of a flight travel in one datagram.
Datagram(to, from, records) == [to |-> to, from |-> from, records |-> records]

\* The network after an endpoint took the datagrams `taken` out of it and
\* sent the flights `out`.
Exchange(taken, to, from, out) ==
    /\ net' = (net \ taken) \cup {Datagram(to, from, out[i]) : i \in 1..Len(out)}
    /\ wire' = wire \cup UNION {{<<from, out[i][j]>> : j \in 1..Len(out[i])} : i \in 1..Len(out)}

\* A datagram reaches its addressee for the last time, or once more.
Taken(d, again) ==
    /\ d \in net
    /\ IF again THEN Fault ELSE UNCHANGED faults

\* A peer of another make may send each record in a datagram of its own.
Split ==
    /\ \E d \in net :
          /\ Len(d.records) > 1
          /\ net' = (net \ {d}) \cup
                {[d EXCEPT !.records = <<d.records[i]>>] : i \in 1..Len(d.records)}
    /\ Fault
    /\ UNCHANGED wire

Lose ==
    /\ \E d \in net : net' = net \ {d}
    /\ Fault
    /\ UNCHANGED wire
=============================================================================
