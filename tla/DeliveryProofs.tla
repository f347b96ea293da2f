--------------------------- MODULE DeliveryProofs ---------------------------
(***************************************************************************)
(* What is sent once is taken once: the records of a connection, and what  *)
(* handles ask of the driver and hear from it.                             *)
(***************************************************************************)
EXTENDS RecordLayer, Handles, TLAPS

-----------------------------------------------------------------------------
(* Records *)

\* For every window width, every length of the connection and every way the
\* network treats it.  The inductive invariant reads the bitmap: bit b is set
\* exactly when the record b behind the newest one was returned.

\* Window w describes the set o of records returned so far.
Describes(w, o) ==
    /\ w \in Windows
    /\ w.newest = NothingYet <=> o = {}
    /\ w.newest # NothingYet => w.newest \in o
    /\ \A s \in o : s \in Nat /\ s <= w.newest
    /\ \A b \in 0..(Width - 1) : b \in w.seen <=> w.newest - b \in o

\* Records that can authenticate carry numbers the peer has used.
Issued(r) == r \in Record /\ (r.kind \in {"data", "alert"} => r.seq < next)

RecordInv ==
    /\ next \in Nat
    /\ opened \subseteq 0..(next - 1)
    /\ returned \in Nat
    /\ closed \in BOOLEAN
    /\ \A d \in wire : d \in Seq(Record) /\ \A i \in 1..Len(d) : Issued(d[i])
    /\ unread \in Seq(Record) /\ \A i \in 1..Len(unread) : Issued(unread[i])
    /\ Describes(window, opened)

-----------------------------------------------------------------------------
(* The window *)

\* The window reports what it describes, and everything Width or more behind.
LEMMA HasSeenExact ==
    ASSUME NEW w, NEW o, Describes(w, o), NEW s \in Nat
    PROVE  HasSeen(w, s) <=> s \in o \/ \E n \in o : s + Width <= n
<1>w. Width \in Nat /\ Width > 0
  BY WidthAssumption
<1>1. CASE w.newest = NothingYet
  BY <1>1, Zenon DEF Describes, HasSeen
<1>2. CASE w.newest # NothingYet
  <2>1. w.newest \in Nat /\ w.newest \in o
    BY <1>2, Zenon DEF Describes, Windows
  <2>2. (\E n \in o : s + Width <= n) <=> s + Width <= w.newest
    BY <1>w, <2>1 DEF Describes
  <2>3. CASE s > w.newest
    BY <1>2, <1>w, <2>1, <2>2, <2>3 DEF Describes, HasSeen
  <2>4. CASE s <= w.newest /\ w.newest - s >= Width
    BY <1>2, <1>w, <2>1, <2>2, <2>4 DEF HasSeen
  <2>5. CASE s <= w.newest /\ w.newest - s < Width
    <3>1. w.newest - s \in 0..(Width - 1) /\ w.newest - (w.newest - s) = s
      BY <1>w, <2>1, <2>5
    <3>2. (w.newest - s) \in w.seen <=> s \in o
      BY <3>1, Zenon DEF Describes
    <3>3. ~(s + Width <= w.newest) /\ ~(w.newest - s >= Width)
      BY <1>w, <2>1, <2>5
    <3> QED BY <1>2, <2>2, <2>5, <3>2, <3>3, Zenon DEF HasSeen
  <2> QED BY <1>w, <2>1, <2>3, <2>4, <2>5
<1> QED BY <1>1, <1>2, Zenon

\* Marking a record keeps the description exact.
LEMMA MarkSeenExact ==
    ASSUME NEW w, NEW o, Describes(w, o), NEW s \in Nat
    PROVE  s \notin o /\ ~HasSeen(w, s) => Describes(MarkSeen(w, s), o \cup {s})
<1> SUFFICES ASSUME s \notin o, ~HasSeen(w, s)
             PROVE  Describes(MarkSeen(w, s), o \cup {s})
  BY Zenon
<1>w. Width \in Nat /\ Width > 0 /\ 0 \in 0..(Width - 1)
  BY WidthAssumption
<1>1. CASE w.newest = NothingYet
  <2>1. MarkSeen(w, s) = [newest |-> s, seen |-> {0}] /\ o = {}
    BY <1>1, Zenon DEF MarkSeen, Describes
  <2>2. \A b \in 0..(Width - 1) : b \in {0} <=> s - b \in {s}
    BY <1>w
  <2> QED BY <1>w, <2>1, <2>2 DEF Describes, Windows, NothingYet
<1>2. CASE w.newest # NothingYet /\ s > w.newest
  <2>t. w.newest \in Nat
    BY <1>2, Zenon DEF Describes, Windows
  <2> DEFINE shift == s - w.newest
             bits == IF shift >= Width THEN {0} ELSE Shifted(w.seen, shift) \cup {0}
  <2>1. MarkSeen(w, s) = [newest |-> s, seen |-> bits]
    BY <1>2, Zenon DEF MarkSeen
  <2>2. bits \subseteq 0..(Width - 1)
    BY <1>w, Zenon DEF Shifted
  <2>3. \A b \in 0..(Width - 1) : b \in bits <=> s - b \in o \cup {s}
    <3> TAKE b \in 0..(Width - 1)
    <3>1. CASE b = 0
      BY <3>1
    <3>2. CASE b # 0 /\ b < shift
      <4>1. s - b \notin o /\ s - b # s
        BY <2>t, <3>2 DEF Describes
      <4>2. b - shift \notin 0..(Width - 1)
        BY <2>t, <3>2
      <4>3. b \notin bits
        BY <3>2, <4>2, Zenon DEF Shifted, Describes, Windows
      <4> QED BY <4>1, <4>3, Zenon
    <3>3. CASE b # 0 /\ b >= shift
      <4>1. shift < Width /\ b - shift \in 0..(Width - 1)
        BY <1>2, <1>w, <2>t, <3>3
      <4>2. w.newest - (b - shift) = s - b /\ s - b # s
        BY <2>t, <3>3
      <4>3. b - shift \in w.seen <=> s - b \in o
        BY <4>1, <4>2, Zenon DEF Describes
      <4>4. ~(shift >= Width)
        BY <2>t, <4>1, <1>w
      <4>5. b \in bits <=> b - shift \in w.seen
        BY <3>3, <4>4, Zenon DEF Shifted
      <4> QED BY <4>2, <4>3, <4>5, Zenon
    <3> QED BY <2>t, <3>1, <3>2, <3>3
  <2> HIDE DEF bits
  <2>4. [newest |-> s, seen |-> bits] \in Windows
    BY <2>2, Zenon DEF Windows
  <2>5. \A n \in o \cup {s} : n \in Nat /\ n <= s
    BY <1>2, <2>t DEF Describes
  <2> QED BY <2>1, <2>3, <2>4, <2>5 DEF Describes, NothingYet
<1>3. CASE w.newest # NothingYet /\ ~(s > w.newest)
  <2>t. w.newest \in Nat
    BY <1>3, Zenon DEF Describes, Windows
  <2>0. w.newest - s < Width /\ w.newest - s \in 0..(Width - 1)
    BY <1>3, <1>w, <2>t DEF HasSeen
  <2>1. MarkSeen(w, s) = [newest |-> w.newest, seen |-> w.seen \cup {w.newest - s}]
    BY <1>3, <2>0, Zenon DEF MarkSeen
  <2>2. \A b \in 0..(Width - 1) :
           b \in w.seen \cup {w.newest - s} <=> w.newest - b \in o \cup {s}
    <3> TAKE b \in 0..(Width - 1)
    <3>1. b = w.newest - s <=> w.newest - b = s
      BY <2>t
    <3>2. b \in w.seen <=> w.newest - b \in o
      BY Zenon DEF Describes
    <3> QED BY <3>1, <3>2, Zenon
  <2>3. [newest |-> w.newest, seen |-> w.seen \cup {w.newest - s}] \in Windows
    BY <2>0, Zenon DEF Describes, Windows
  <2>4. \A n \in o \cup {s} : n \in Nat /\ n <= w.newest
    BY <1>3, <2>t DEF Describes
  <2>5. w.newest \in o
    BY <1>3, Zenon DEF Describes
  <2> QED BY <1>3, <2>1, <2>2, <2>3, <2>4, <2>5 DEF Describes
<1> QED BY <1>1, <1>2, <1>3, Zenon

-----------------------------------------------------------------------------
(* Steps *)

\* A datagram of the peer numbers its records consecutively.
LEMMA DatagramNumbered ==
    ASSUME next \in Nat, NEW n \in Nat, NEW last \in {"data", "alert", "handshake"}
    PROVE  /\ Datagram(next, n, last) \in Seq(Record)
           /\ Len(Datagram(next, n, last)) = n
           /\ \A i \in 1..n : /\ Datagram(next, n, last)[i] \in Record
                              /\ Datagram(next, n, last)[i].seq < next + n
<1>1. \A i \in 1..n : next + i - 1 \in Nat /\ next + i - 1 < next + n
  OBVIOUS
<1>2. \A i \in 1..n : /\ Datagram(next, n, last)[i] \in Record
                      /\ Datagram(next, n, last)[i].seq < next + n
  BY <1>1, Zenon DEF Datagram, Record
<1>3. Datagram(next, n, last) \in [1..n -> Record]
  BY <1>1, Zenon DEF Datagram, Record
<1> QED BY <1>2, <1>3

\* A datagram the peer sends carries numbers it has not used before.
LEMMA SendKeepsInv ==
    ASSUME RecordInv, NEW n \in 1..MaxBundle, NEW last \in {"data", "alert", "handshake"},
           SendDatagram(n, last)
    PROVE  RecordInv'
<1>t. n \in Nat /\ n > 0 /\ next \in Nat /\ next' = next + n
      /\ UNCHANGED <<unread, window, opened, returned, closed>>
      /\ wire' = wire \cup {Datagram(next, n, last)}
  BY MaxBundleAssumption DEF SendDatagram, RecordInv
<1>1. next' \in Nat /\ next < next'
  BY <1>t
<1>2. \A r : Issued(r) => Issued(r)'
  <2> SUFFICES ASSUME NEW r, r \in Record, r.kind \in {"data", "alert"} => r.seq < next
               PROVE  r.kind \in {"data", "alert"} => r.seq < next'
    BY Zenon DEF Issued
  <2>1. r.seq \in Nat
    BY Zenon DEF Record
  <2> QED BY <1>t, <1>1, <2>1
<1>3. \A d \in wire' : d \in Seq(Record) /\ \A i \in 1..Len(d) : Issued(d[i])'
  <2>1. \A d \in wire : d \in Seq(Record) /\ \A i \in 1..Len(d) : Issued(d[i])'
    BY <1>2, Zenon DEF RecordInv
  <2>2. ASSUME NEW d, d = Datagram(next, n, last)
        PROVE  d \in Seq(Record) /\ \A i \in 1..Len(d) : Issued(d[i])'
    <3>1. d \in Seq(Record) /\ Len(d) = n
          /\ \A i \in 1..n : d[i] \in Record /\ d[i].seq < next + n
      BY <1>t, <2>2, DatagramNumbered, Zenon
    <3> QED BY <1>t, <3>1, Zenon DEF Issued
  <2>3. \A d \in wire' : d \in wire \/ d = Datagram(next, n, last)
    BY <1>t, Zenon
  <2> QED BY <2>1, <2>2, <2>3, Zenon
<1>4. unread' \in Seq(Record) /\ \A i \in 1..Len(unread') : Issued(unread[i])'
  BY <1>t, <1>2, Zenon DEF RecordInv
<1>5. opened' \subseteq 0..(next' - 1)
  BY <1>t, <1>1 DEF RecordInv
<1>6. Describes(window, opened)'
  BY <1>t, Zenon DEF RecordInv, Describes
<1>7. returned' \in Nat /\ closed' \in BOOLEAN
  BY <1>t, Zenon DEF RecordInv
<1> QED BY <1>t, <1>1, <1>3, <1>4, <1>5, <1>6, <1>7, Zenon DEF RecordInv

\* A datagram, damaged or not, only fills the queue of unread records.
LEMMA ReceiveKeepsInv ==
    ASSUME RecordInv,
           \/ \E d \in wire : \E damaged \in SUBSET (1..Len(d)) : ReceiveDatagram(d, damaged)
           \/ \E s \in 0..(MaxSequence - 1) : ReceiveHandshake(s)
    PROVE  RecordInv'
<1>t. UNCHANGED <<next, wire, window, opened, returned, closed>>
  BY Zenon DEF ReceiveDatagram, ReceiveHandshake
<1>1. unread' \in Seq(Record) /\ \A i \in 1..Len(unread') : Issued(unread'[i])
  <2>1. ASSUME NEW d \in wire, NEW damaged \in SUBSET (1..Len(d)),
               ReceiveDatagram(d, damaged)
        PROVE  unread' \in Seq(Record) /\ \A i \in 1..Len(unread') : Issued(unread'[i])
    <3>1. d \in Seq(Record) /\ \A i \in 1..Len(d) : Issued(d[i])
      BY Zenon DEF RecordInv
    <3>2. unread' = [i \in 1..Len(d) |->
                       [kind |-> d[i].kind, seq |-> d[i].seq, intact |-> i \notin damaged]]
      BY <2>1, Zenon DEF ReceiveDatagram
    <3>3. \A i \in 1..Len(d) : /\ d[i].kind \in {"data", "alert", "handshake"}
                               /\ d[i].seq \in Nat
                               /\ (i \notin damaged) \in BOOLEAN
      BY <3>1, Zenon DEF Issued, Record
    <3>4. \A i \in 1..Len(d) : /\ unread'[i] \in Record
                               /\ unread'[i].kind = d[i].kind
                               /\ unread'[i].seq = d[i].seq
      BY <3>2, <3>3, Zenon DEF Record
    <3>5. unread' \in [1..Len(d) -> Record] /\ Len(d) \in Nat
      BY <3>1, <3>2, <3>4
    <3>6. unread' \in Seq(Record) /\ Len(unread') = Len(d)
      BY <3>5
    <3> QED BY <3>1, <3>4, <3>6, Zenon DEF Issued
  <2>2. ASSUME NEW s \in 0..(MaxSequence - 1), ReceiveHandshake(s)
        PROVE  unread' \in Seq(Record) /\ \A i \in 1..Len(unread') : Issued(unread'[i])
    <3> DEFINE r == [kind |-> "handshake", seq |-> s, intact |-> TRUE]
    <3>1. r \in Record /\ Issued(r)
      BY MaxSequenceAssumption DEF Record, Issued
    <3>2. unread' = <<r>>
      BY <2>2, Zenon DEF ReceiveHandshake
    <3> HIDE DEF r
    <3> QED BY <3>1, <3>2
  <2> QED BY <2>1, <2>2, Zenon
<1>2. \A r : Issued(r) <=> Issued(r)'
  BY <1>t, Zenon DEF Issued
<1>3. Describes(window, opened)'
  BY <1>t, Zenon DEF RecordInv, Describes
<1>4. /\ next' \in Nat /\ opened' \subseteq 0..(next' - 1)
      /\ returned' \in Nat /\ closed' \in BOOLEAN
      /\ \A d \in wire' : d \in Seq(Record) /\ \A i \in 1..Len(d) : Issued(d[i])'
  BY <1>t, <1>2, Zenon DEF RecordInv
<1>5. \A i \in 1..Len(unread') : Issued(unread[i])'
  BY <1>1, <1>2, Zenon DEF Issued
<1> QED BY <1>1, <1>3, <1>4, <1>5, Zenon DEF RecordInv

\* Returning a record: it is new, the peer numbered it, and the window follows.
LEMMA OpenEffect ==
    ASSUME RecordInv, OpenRecord
    PROVE  /\ \E s \in 0..(next - 1) : s \notin opened /\ opened' = opened \cup {s}
           /\ returned' = returned + 1
           /\ closed' \in BOOLEAN
           /\ Describes(window', opened')
           /\ unread' \in Seq(Record) /\ \A i \in 1..Len(unread') : Issued(unread'[i])
<1>t. next \in Nat /\ Describes(window, opened) /\ unread \in Seq(Record)
  BY Zenon DEF RecordInv
<1>1. PICK i \in 1..Len(unread) :
         /\ Usable(unread[i])
         /\ window' = MarkSeen(window, unread[i].seq)
         /\ opened' = opened \cup {unread[i].seq}
         /\ returned' = returned + 1
         /\ closed' = (unread[i].kind = "alert")
         /\ unread' = SubSeq(unread, i + 1, Len(unread))
  BY Zenon DEF OpenRecord
<1>2. unread[i].seq \in Nat /\ unread[i].seq < next /\ ~HasSeen(window, unread[i].seq)
  BY <1>1, Zenon DEF RecordInv, Issued, Record, Usable
<1>3. unread[i].seq \notin opened
  BY <1>t, <1>2, HasSeenExact, Zenon
<1>4. Describes(window', opened')
  BY <1>t, <1>1, <1>2, <1>3, MarkSeenExact, Zenon
<1>5. unread[i].seq \in 0..(next - 1)
  BY <1>t, <1>2
<1>6. unread' \in Seq(Record) /\ \A j \in 1..Len(unread') : Issued(unread'[j])
  <2>1. /\ unread' \in Seq(Record)
        /\ \A j \in 1..Len(unread') : i + j \in 1..Len(unread) /\ unread'[j] = unread[i + j]
    BY <1>t, <1>1, SMTT(30)
  <2> QED BY <2>1, Zenon DEF RecordInv
<1> QED BY <1>1, <1>3, <1>4, <1>5, <1>6, Zenon

\* Opening or discarding records keeps the invariant.
LEMMA OpenKeepsInv ==
    ASSUME RecordInv, OpenRecord \/ DiscardRecords
    PROVE  RecordInv'
<1>t. UNCHANGED <<next, wire>> /\ next \in Nat
  BY Zenon DEF OpenRecord, DiscardRecords, RecordInv
<1>1. \A r : Issued(r) <=> Issued(r)'
  BY <1>t, Zenon DEF Issued
<1>2. \A d \in wire' : d \in Seq(Record) /\ \A i \in 1..Len(d) : Issued(d[i])'
  BY <1>t, <1>1, Zenon DEF RecordInv
<1>3. CASE OpenRecord
  <2>0. returned \in Nat /\ returned' = returned + 1
    BY <1>3, OpenEffect, Zenon DEF RecordInv
  <2>1. /\ opened' \subseteq 0..(next' - 1)
        /\ closed' \in BOOLEAN
        /\ Describes(window', opened')
        /\ unread' \in Seq(Record) /\ \A i \in 1..Len(unread') : Issued(unread'[i])
    BY <1>t, <1>3, OpenEffect, Zenon DEF RecordInv
  <2>2. \A i \in 1..Len(unread') : Issued(unread[i])'
    BY <1>t, <2>1, Zenon DEF Issued
  <2>3. Describes(window, opened)'
    BY <2>1, Zenon DEF Describes
  <2>4. returned' \in Nat
    BY <2>0
  <2> QED BY <1>t, <1>2, <2>1, <2>2, <2>3, <2>4, Zenon DEF RecordInv
<1>4. CASE DiscardRecords
  <2>1. unread' = <<>> /\ UNCHANGED <<window, opened, returned, closed>>
    BY <1>4, Zenon DEF DiscardRecords
  <2>2. unread' \in Seq(Record) /\ Len(unread') = 0
    BY <2>1
  <2>3. Describes(window, opened)'
    BY <2>1, Zenon DEF RecordInv, Describes
  <2> QED BY <1>t, <1>2, <2>1, <2>2, <2>3 DEF RecordInv
<1> QED BY <1>3, <1>4, Zenon

-----------------------------------------------------------------------------
(* Theorems *)

\* The invariant holds when the handshake is over.
LEMMA InitInv == RecordInit => RecordInv
<1> SUFFICES ASSUME RecordInit PROVE RecordInv
  BY Zenon
<1>1. /\ next \in Nat /\ returned \in Nat /\ closed \in BOOLEAN
      /\ wire = {} /\ unread = <<>>
  <2>1. next \in 0..MaxFinished /\ MaxFinished \in Nat
    BY MaxFinishedAssumption, Zenon DEF RecordInit
  <2>2. returned = 0 /\ closed = FALSE /\ wire = {} /\ unread = <<>>
    BY Zenon DEF RecordInit
  <2>3. next \in Nat
    BY <2>1
  <2> QED BY <2>2, <2>3, Zenon
<1>2. unread \in Seq(Record) /\ Len(unread) = 0
  BY <1>1
<1>3. Describes(EmptyWindow, {})
  BY Zenon DEF Describes, EmptyWindow, Windows, NothingYet
<1>4. CASE opened = {} /\ window = EmptyWindow
  BY <1>1, <1>2, <1>3, <1>4 DEF RecordInv
<1>5. ASSUME NEW s \in 0..(next - 1), opened = {s}, window = MarkSeen(EmptyWindow, s)
      PROVE  RecordInv
  <2>1. s \in Nat /\ ~HasSeen(EmptyWindow, s)
    BY <1>1 DEF HasSeen, EmptyWindow
  <2>2. Describes(MarkSeen(EmptyWindow, s), {} \cup {s})
    BY <1>3, <2>1, MarkSeenExact, Zenon
  <2>3. {} \cup {s} = {s}
    BY Zenon
  <2>4. Describes(window, opened)
    BY <1>5, <2>2, <2>3, Zenon
  <2> QED BY <1>1, <1>2, <1>5, <2>4 DEF RecordInv
<1> QED BY <1>4, <1>5, Zenon DEF RecordInit

\* The bitmap describes the records returned, throughout every behaviour.
THEOREM RecordInvariant == RecordSpec => []RecordInv
<1>1. RecordInv /\ [RecordNext]_recordVars => RecordInv'
  <2> SUFFICES ASSUME RecordInv, [RecordNext]_recordVars PROVE RecordInv'
    BY Zenon
  <2>1. CASE UNCHANGED recordVars
    BY <2>1, Zenon DEF recordVars, RecordInv, Describes, Issued
  <2> QED BY <2>1, SendKeepsInv, ReceiveKeepsInv, OpenKeepsInv, Zenon DEF RecordNext
<1> QED BY <1>1, InitInv, PTL DEF RecordSpec

\* Every variable of the record layer keeps its type.
THEOREM RecordTypes == RecordSpec => []RecordTypeOK
<1>1. RecordInv => RecordTypeOK
  BY Zenon DEF RecordInv, RecordTypeOK, Describes
<1> QED BY <1>1, RecordInvariant, PTL

\* The anti-replay window answers exactly, whatever its width and whatever
\* order, repetition and damage the network produces.
THEOREM WindowIsExact == RecordSpec => []WindowExact
<1>1. RecordInv => WindowExact
  <2> SUFFICES ASSUME RecordInv, NEW s \in 0..(MaxSequence - 1)
               PROVE  HasSeen(window, s) <=> s \in opened \/ \E n \in opened : s + Width <= n
    BY Zenon DEF WindowExact
  <2>1. s \in Nat
    BY MaxSequenceAssumption
  <2> QED BY <2>1, HasSeenExact, Zenon DEF RecordInv
<1> QED BY <1>1, RecordInvariant, PTL

\* The session implements the abstract channel: at most once, nothing forged,
\* nothing after an alert.
THEOREM SessionImplementsChannel == RecordSpec => ImplementsChannel
<1>1. RecordInit => Channel!Init
  <2> SUFFICES ASSUME RecordInit PROVE Channel!Init
    OBVIOUS
  <2>1. next \in Nat /\ opened \subseteq 0..(next - 1) /\ returned = 0 /\ closed = FALSE
    BY InitInv, Zenon DEF RecordInv, RecordInit
  <2> QED BY <2>1, Zenon DEF Channel!Init
<1>2. RecordInv /\ [RecordNext]_recordVars => [Channel!Next]_<<next, opened, returned, closed>>
  <2> SUFFICES ASSUME RecordInv, [RecordNext]_recordVars
               PROVE  [Channel!Next]_<<next, opened, returned, closed>>
    BY Zenon
  <2>1. CASE UNCHANGED recordVars
    BY <2>1, Zenon DEF recordVars
  <2>2. ASSUME NEW n \in 1..MaxBundle, NEW last \in {"data", "alert", "handshake"},
               SendDatagram(n, last)
        PROVE  Channel!Next
    <3>1. next' = next + n /\ n \in Nat /\ n > 0 /\ next \in Nat
          /\ UNCHANGED <<opened, returned, closed>>
      BY <2>2, MaxBundleAssumption DEF SendDatagram, RecordInv
    <3>2. next' \in Nat /\ next' > next
      BY <3>1
    <3> QED BY <3>1, <3>2, Zenon DEF Channel!Next, Channel!Send
  <2>3. CASE OpenRecord
    <3>1. ~closed /\ next' = next
      BY <2>3, Zenon DEF OpenRecord
    <3> QED BY <2>3, <3>1, OpenEffect, Zenon DEF Channel!Next, Channel!Deliver
  <2>4. ASSUME \/ \E d \in wire : \E damaged \in SUBSET (1..Len(d)) :
                     ReceiveDatagram(d, damaged)
               \/ \E s \in 0..(MaxSequence - 1) : ReceiveHandshake(s)
               \/ DiscardRecords
        PROVE  UNCHANGED <<next, opened, returned, closed>>
    BY <2>4, Zenon DEF ReceiveDatagram, ReceiveHandshake, DiscardRecords
  <2> QED BY <2>1, <2>2, <2>3, <2>4, Zenon DEF RecordNext
<1> QED BY <1>1, <1>2, RecordInvariant, PTL DEF RecordSpec, ImplementsChannel, Channel!Spec

-----------------------------------------------------------------------------
(* Handles *)

\* For any number of handles, joiners and calls: no joiner is lost, no stale
\* prefix is kept, and no event goes unaccounted for.

-----------------------------------------------------------------------------
(* The mesh-local prefix cache *)

\* A fetch answered with a prefix the network has since left, and that would
\* still be stored, is one that an invalidation still to come will outdate.
StaleAnswersOutdated ==
    \A c \in Callers :
        step[c] = "answered" /\ noted[c] = generation /\ read[c] # current =>
            unhandled > 0

PrefixInv == TypeOK /\ CacheFresh /\ StaleAnswersOutdated

\* The cache starts empty and nobody has asked yet.
LEMMA InitFresh == PrefixInit => PrefixInv
BY SMTT(30) DEF PrefixInit, PrefixInv, TypeOK, CacheFresh, StaleAnswersOutdated, None

\* Every step of a caller, of the border agent and of the driver keeps PrefixInv.
LEMMA StepFresh == PrefixInv /\ [PrefixNext]_prefixVars => PrefixInv'
<1> SUFFICES ASSUME PrefixInv, [PrefixNext]_prefixVars PROVE PrefixInv'
    BY Zenon
<1> USE DEF PrefixInv, TypeOK, CacheFresh, StaleAnswersOutdated, None
<1>1. ASSUME NEW c \in Callers, Lookup(c) PROVE PrefixInv'
    BY <1>1 DEF Lookup
<1>2. ASSUME NEW c \in Callers, Answer(c) PROVE PrefixInv'
    BY <1>2, Zenon DEF Answer
<1>3. ASSUME NEW c \in Callers, Fail(c) PROVE PrefixInv'
    BY <1>3, Zenon DEF Fail
<1>4. ASSUME NEW c \in Callers, Store(c) PROVE PrefixInv'
    BY <1>4, Zenon DEF Store
<1>5. CASE Change
    BY <1>5 DEF Change
<1>6. CASE Invalidate
    BY <1>6 DEF Invalidate
<1>7. CASE UNCHANGED prefixVars
    BY <1>7, Zenon DEF prefixVars
<1>8. QED
    BY <1>1, <1>2, <1>3, <1>4, <1>5, <1>6, <1>7, Zenon DEF PrefixNext

\* Every variable keeps its type.
THEOREM PrefixTypes == PrefixSpec => []TypeOK
<1>1. PrefixInv => TypeOK
    BY Zenon DEF PrefixInv
<1>2. QED
    BY InitFresh, StepFresh, <1>1, PTL DEF PrefixSpec

\* Whatever callers, dataset changes and notifications do between the two
\* critical sections of require_mesh_local_prefix, a stale prefix is never left
\* in the cache without an invalidation to come.
THEOREM CacheStaysFresh == PrefixSpec => []CacheFresh
<1>1. PrefixInv => CacheFresh
    BY SMTT(30) DEF PrefixInv
<1>2. QED
    BY InitFresh, StepFresh, <1>1, PTL DEF PrefixSpec

-----------------------------------------------------------------------------
(* Types *)

Steering == [length : Nat, bits : SUBSET EveryBit]

Stages == {"queued", "read", "check", "write", "reading", "writing"}

CallRecords ==
    [stage : Stages, number : Nat \ {0}, op : Operations, joiner : Joiners \cup {None},
     steering : Steering, address : Int]

Requests ==
    [number : Nat \ {0}, stage : {"read", "write"}, to : Int, joiner : Joiners \cup {None},
     steering : Steering, done : BOOLEAN]

CallTypes ==
    /\ call \in [Callers -> {Idle} \cup CallRecords]
    /\ writes \in Seq(Callers)
    /\ requests \subseteq Requests
    /\ steering \in Steering
    /\ owed \subseteq Joiners
    /\ strays \in BOOLEAN
    /\ started \in Nat

\* Calls are numbered apart, and a number names one request at most.
Numbered ==
    /\ \A c \in Callers : call[c].number <= started
    /\ \A c, d \in Callers : InCall(c) /\ call[c].number = call[d].number => c = d
    /\ \A r \in requests : r.number <= started
    /\ \A r, q \in requests : r.number = q.number => r = q

\* The operation that enables a joiner has one, and is the only one that reads.
JoinersNamed ==
    \A c \in Callers : InCall(c) =>
        /\ call[c].joiner # None <=> call[c].op = enable_joiner
        /\ call[c].stage \in {"read", "reading"} => call[c].op = enable_joiner

\* A call that is past the lock's queue holds the lock.
LockHeld ==
    \A c \in Callers : InCall(c) /\ call[c].op.locks /\ call[c].stage # "queued" => HoldsLock(c)

Sent(r, c) == InCall(c) /\ r.number = call[c].number

\* A request that is not abandoned is the one its caller waits for.
RequestsMatch ==
    \A r \in requests, c \in Callers : Sent(r, c) =>
        /\ call[c].op.locks
        /\ r.stage = "read" => call[c].stage = "reading"
        /\ r.stage = "write" =>
              /\ call[c].stage = "writing"
              /\ r.joiner = call[c].joiner
              /\ r.steering = call[c].steering

\* The data keeps every joiner whose enabling has succeeded.
Keeps(s) ==
    /\ \A j \in owed : BloomBits[j] \subseteq s.bits
    /\ owed # {} => s.length = FullLength

\* What the lock holder read, and what it is about to write, keeps them too.
Careful ==
    ~strays =>
        /\ Keeps(steering)
        /\ \A c \in Callers :
              InCall(c) /\ call[c].joiner # None /\ call[c].stage \in {"check", "write", "writing"} =>
                  /\ Keeps(call[c].steering)
                  /\ call[c].steering.length = FullLength
                  /\ BloomBits[call[c].joiner] \subseteq call[c].steering.bits
        /\ \A r \in requests, c \in Callers : Sent(r, c) /\ r.done =>
              /\ r.stage = "read" => Keeps(r.steering)
              /\ r.stage = "write" /\ r.joiner # None => steering = r.steering

WritesInv ==
    /\ CallTypes
    /\ Numbered
    /\ JoinersNamed
    /\ LockHeld
    /\ RequestsMatch
    /\ Careful

-----------------------------------------------------------------------------
(* Facts about the pieces. *)

\* A call record is the idle one, or has all its fields.
LEMMA CallFacts ==
    ASSUME CallTypes, NEW c \in Callers
    PROVE  /\ InCall(c) => call[c] \in CallRecords
           /\ ~InCall(c) => call[c] = Idle /\ call[c].number = 0
BY SMTT(30) DEF CallTypes, InCall, Idle, CallRecords, Stages

\* Leaving the queue keeps the lock with the one at its front.
LEMMA LeavingQueue ==
    ASSUME NEW queue \in Seq(Callers), NEW c \in Callers
    PROVE  /\ Without(queue, c) \in Seq(Callers)
           /\ queue # <<>> /\ Head(queue) # c =>
                 Without(queue, c) # <<>> /\ Head(Without(queue, c)) = Head(queue)
<1>1. CASE ~\E i \in 1..Len(queue) : queue[i] = c
    BY <1>1, Zenon DEF Without
<1>2. CASE \E i \in 1..Len(queue) : queue[i] = c
    <2> DEFINE i == CHOOSE i \in 1..Len(queue) : queue[i] = c
    <2>1. i \in 1..Len(queue) /\ queue[i] = c
        BY <1>2, Zenon
    <2> HIDE DEF i
    <2>2. Without(queue, c) = SubSeq(queue, 1, i - 1) \o SubSeq(queue, i + 1, Len(queue))
        BY <1>2, Zenon DEF Without, i
    <2>3. /\ SubSeq(queue, 1, i - 1) \in Seq(Callers)
          /\ Len(SubSeq(queue, 1, i - 1)) = i - 1
          /\ SubSeq(queue, i + 1, Len(queue)) \in Seq(Callers)
        BY <2>1
    <2>4. Without(queue, c) \in Seq(Callers)
        BY <2>2, <2>3
    <2>5. ASSUME queue # <<>>, Head(queue) # c
          PROVE  Without(queue, c) # <<>> /\ Head(Without(queue, c)) = Head(queue)
        <3>1. i >= 2
            BY <2>1, <2>5
        <3>2. Len(Without(queue, c)) >= 1 /\ Without(queue, c)[1] = SubSeq(queue, 1, i - 1)[1]
            BY <2>1, <2>2, <2>3, <3>1
        <3>3. SubSeq(queue, 1, i - 1)[1] = queue[1]
            BY <2>1, <3>1
        <3>4. Without(queue, c) # <<>>
            BY <3>2
        <3>5. Head(Without(queue, c)) = Without(queue, c)[1] /\ Head(queue) = queue[1]
            BY <2>4, <2>5, <3>4, SMTT(30)
        <3>6. QED
            BY <3>2, <3>3, <3>4, <3>5, Zenon
    <2>6. QED
        BY <2>4, <2>5, Zenon
<1>3. QED
    BY <1>1, <1>2, Zenon

\* Adding a joiner to data that keeps the others keeps them, and adds it.
LEMMA AddingKeeps ==
    ASSUME NEW s \in Steering, NEW j \in Joiners, owed \subseteq Joiners
    PROVE  /\ AddJoiner(s, j) \in Steering
           /\ AddJoiner(s, j).length = FullLength
           /\ BloomBits[j] \subseteq AddJoiner(s, j).bits
           /\ Keeps(s) => Keeps(AddJoiner(s, j))
<1>1. BloomBits[j] \subseteq EveryBit
    BY SMTT(30) DEF EveryBit
<1>2. QED
    BY <1>1, Zenon DEF AddJoiner, Steering, Keeps, FullLength

-----------------------------------------------------------------------------
(* Steps. *)

written == <<call, writes, requests, steering, owed, strays, started>>

\* What happens elsewhere leaves the writes alone.
LEMMA Elsewhere ==
    ASSUME WritesInv, UNCHANGED written
    PROVE  WritesInv'
BY ZenonT(60) DEF written, WritesInv, CallTypes, Numbered, JoinersNamed, LockHeld, RequestsMatch,
   Careful,
       InCall, HoldsLock, Sent, Keeps

\* c's call is now `rec`.
Becomes(c, rec) ==
    /\ rec \in CallRecords
    /\ call' = [call EXCEPT ![c] = rec]

\* A call goes on towards its next request.
LEMMA GoesOn ==
    ASSUME WritesInv, NEW c \in Callers, InCall(c), NEW rec, Becomes(c, rec),
           call[c].stage \notin {"reading", "writing"},
           rec.stage \notin {"queued", "reading", "writing"},
           rec.number = call[c].number, rec.op = call[c].op, rec.joiner = call[c].joiner,
           rec.steering = call[c].steering,
           rec.stage \in {"check", "write"} /\ rec.joiner # None =>
               call[c].stage \in {"check", "write"},
           rec.stage = "read" => rec.op = enable_joiner,
           rec.op.locks => HoldsLock(c),
           UNCHANGED <<writes, requests, steering, owed, strays, started>>
    PROVE  WritesInv'
<1> USE DEF WritesInv
<1>1. /\ call' \in [Callers -> {Idle} \cup CallRecords]
      /\ call'[c] = rec
      /\ \A d \in Callers \ {c} : call'[d] = call[d]
    BY Zenon DEF Becomes, CallTypes
<1>2. rec.stage # "idle"
    BY Zenon DEF Becomes, CallRecords, Stages
<1>3. CallTypes'
    BY <1>1, Zenon DEF CallTypes
<1>4. Numbered'
    BY <1>1, <1>2, SMTT(30) DEF Numbered, InCall
<1>5. JoinersNamed'
    BY <1>1, <1>2, ZenonT(60) DEF JoinersNamed, InCall
<1>6. LockHeld'
    BY <1>1, <1>2, Zenon DEF LockHeld, InCall, HoldsLock
<1>7. \A r \in requests : ~Sent(r, c)
    BY Zenon DEF RequestsMatch, CallTypes, Requests
<1>8. \A r \in requests, d \in Callers : Sent(r, d)' => d # c /\ Sent(r, d)
    BY <1>1, <1>2, <1>7, Zenon DEF Sent, InCall
<1>9. RequestsMatch'
    <2> SUFFICES ASSUME NEW r \in requests', NEW d \in Callers, Sent(r, d)'
                 PROVE  /\ call'[d].op.locks
                        /\ r.stage = "read" => call'[d].stage = "reading"
                        /\ r.stage = "write" =>
                              /\ call'[d].stage = "writing"
                              /\ r.joiner = call'[d].joiner
                              /\ r.steering = call'[d].steering
        BY Zenon DEF RequestsMatch
    <2>1. r \in requests
        OBVIOUS
    <2>2. Sent(r, d) /\ call'[d] = call[d]
        BY <1>1, <1>8, <2>1, Zenon
    <2>3. QED
        BY <2>1, <2>2, ZenonT(60) DEF RequestsMatch
<1>10. Careful'
    BY <1>1, <1>2, <1>8, ZenonT(60) DEF Careful, Keeps, InCall
<1>11. QED
    BY <1>3, <1>4, <1>5, <1>6, <1>9, <1>10, Zenon

\* A call ends, with its request or leaving it behind: the others go on as
\* they were.
LEMMA Leaves ==
    ASSUME WritesInv, NEW c \in Callers, Return(c), requests' \subseteq requests,
           owed' \subseteq Joiners, UNCHANGED <<steering, strays, started>>
    PROVE  /\ CallTypes' /\ Numbered' /\ JoinersNamed' /\ LockHeld' /\ RequestsMatch'
           /\ \A d \in Callers : InCall(d)' => d # c /\ InCall(d) /\ call'[d] = call[d]
           /\ \A r \in requests', d \in Callers : Sent(r, d)' => d # c /\ Sent(r, d)
<1> USE DEF WritesInv
<1>1. /\ call' \in [Callers -> {Idle} \cup CallRecords]
      /\ call'[c] = Idle
      /\ \A d \in Callers \ {c} : call'[d] = call[d]
    BY Zenon DEF Return, CallTypes
<1>2. ~InCall(c)' /\ Idle.number = 0
    BY <1>1 DEF InCall, Idle
<1>3. writes' \in Seq(Callers)
    BY LeavingQueue, Zenon DEF Return, CallTypes
<1>4. CallTypes'
    BY <1>1, <1>3, Zenon DEF CallTypes
<1>5. \A d \in Callers : InCall(d)' => d # c /\ InCall(d)
    BY <1>1, <1>2, Zenon DEF InCall
<1>6. Numbered'
    <2>1. \A d \in Callers : call'[d].number <= started'
        BY <1>1, <1>2, SMTT(30) DEF Numbered, CallTypes
    <2>2. \A d, e \in Callers : InCall(d)' /\ call'[d].number = call'[e].number => d = e
        <3> SUFFICES ASSUME NEW d \in Callers, NEW e \in Callers, InCall(d)',
                            call'[d].number = call'[e].number
                     PROVE  d = e
            BY Zenon
        <3>1. d # c /\ InCall(d) /\ call'[d] = call[d]
            BY <1>1, <1>5, Zenon
        <3>2. call[d].number # 0
            BY <3>1, CallFacts, Zenon DEF CallRecords
        <3>3. e # c
            BY <1>1, <1>2, <3>1, <3>2, Zenon
        <3>4. QED
            BY <1>1, <3>1, <3>3, Zenon DEF Numbered
    <2>3. QED
        BY <2>1, <2>2, Zenon DEF Numbered
<1>7. JoinersNamed'
    BY <1>1, <1>5, Zenon DEF JoinersNamed
<1>8. LockHeld'
    <2> SUFFICES ASSUME NEW d \in Callers, InCall(d)', call'[d].op.locks, call'[d].stage # "queued"
                 PROVE  HoldsLock(d)'
        BY Zenon DEF LockHeld
    <2>1. d # c /\ HoldsLock(d)
        BY <1>1, <1>5, Zenon DEF LockHeld
    <2>2. QED
        BY <2>1, LeavingQueue, Zenon DEF Return, CallTypes, HoldsLock
<1>9. \A r \in requests', d \in Callers : Sent(r, d)' => d # c /\ Sent(r, d)
    BY <1>1, <1>5, Zenon DEF Sent
<1>10. RequestsMatch'
    BY <1>1, <1>9, ZenonT(60) DEF RequestsMatch
<1>11. QED
    BY <1>1, <1>4, <1>5, <1>6, <1>7, <1>8, <1>9, <1>10, Zenon

\* A call ends without enabling a joiner.
LEMMA Ends ==
    ASSUME WritesInv, NEW c \in Callers, Return(c), requests' \subseteq requests,
           UNCHANGED <<steering, owed, strays, started>>
    PROVE  WritesInv'
<1>1. /\ CallTypes' /\ Numbered' /\ JoinersNamed' /\ LockHeld' /\ RequestsMatch'
      /\ \A d \in Callers : InCall(d)' => d # c /\ InCall(d) /\ call'[d] = call[d]
      /\ \A r \in requests', d \in Callers : Sent(r, d)' => d # c /\ Sent(r, d)
    BY Leaves, Zenon DEF WritesInv, CallTypes
<1>2. Careful'
    BY <1>1, Zenon DEF WritesInv, Careful, Keeps
<1>3. QED
    BY <1>1, <1>2, Zenon DEF WritesInv

\* A call begins.
LEMMA Begins ==
    ASSUME WritesInv, NEW c \in Callers, NEW op \in Operations, NEW j \in Joiners \cup {None},
           NEW s \in Steering, Begin(c, op, j, s), j # None <=> op = enable_joiner
    PROVE  WritesInv'
<1> USE DEF WritesInv
<1> DEFINE stage == IF op.locks THEN "queued" ELSE FirstStage(op)
           rec == Calling(started + 1, op, stage, j, s)
<1>1. op = enable_joiner => stage = "queued"
    BY DEF enable_joiner, Operation
<1>2. stage \in {"queued", "check"}
    BY <1>1, Zenon DEF FirstStage
<1>3. /\ rec \in CallRecords
      /\ rec.stage = stage /\ rec.number = started + 1 /\ rec.op = op /\ rec.joiner = j
    BY <1>2, SMTT(30) DEF Calling, CallRecords, Stages, CallTypes, None
<1> HIDE DEF rec
<1>4. /\ call' \in [Callers -> {Idle} \cup CallRecords]
      /\ call'[c] = rec
      /\ \A d \in Callers \ {c} : call'[d] = call[d]
      /\ ~InCall(c)
      /\ started' = started + 1
      /\ UNCHANGED <<requests, steering, owed, strays>>
    BY <1>3, Zenon DEF Begin, CallTypes, rec
<1>5. \A d \in Callers : InCall(d)' /\ d # c => InCall(d)
    BY <1>4, Zenon DEF InCall
<1>6. writes' \in Seq(Callers)
    BY DEF Begin, CallTypes
<1>7. CallTypes'
    BY <1>4, <1>6, SMTT(30) DEF CallTypes
<1>8. Numbered'
    <2>1. \A d \in Callers \ {c} : call[d].number # started + 1
        BY <1>4, CallFacts DEF Numbered, CallTypes, CallRecords
    <2>2. \A d \in Callers : call'[d].number <= started'
        <3> TAKE d \in Callers
        <3>1. call[d].number \in Nat
            <4>1. CASE InCall(d)
                BY <4>1, CallFacts, Zenon DEF CallRecords
            <4>2. CASE ~InCall(d)
                BY <4>2, CallFacts
            <4>3. QED
                BY <4>1, <4>2, Zenon
        <3>2. call[d].number <= started /\ started \in Nat
            BY Zenon DEF Numbered, CallTypes
        <3>3. QED
            BY <1>3, <1>4, <3>1, <3>2
    <2>3. \A d, e \in Callers : InCall(d)' /\ call'[d].number = call'[e].number => d = e
        <3> SUFFICES ASSUME NEW d \in Callers, NEW e \in Callers,
                            InCall(d)', call'[d].number = call'[e].number, d # e
                     PROVE  FALSE
            BY Zenon
        <3>1. CASE d = c
            BY <1>3, <1>4, <2>1, <3>1, Zenon
        <3>2. CASE e = c
            BY <1>3, <1>4, <2>1, <3>2, Zenon
        <3>3. CASE d # c /\ e # c
            BY <1>4, <1>5, <3>3, Zenon DEF Numbered
        <3>4. QED
            BY <3>1, <3>2, <3>3, Zenon
    <2>4. \A r \in requests : r.number <= started + 1
        BY DEF Numbered, CallTypes, Requests
    <2>5. QED
        BY <1>4, <2>2, <2>3, <2>4, Zenon DEF Numbered
<1>9. JoinersNamed'
    BY <1>2, <1>3, <1>4, <1>5, Zenon DEF JoinersNamed
<1>10. LockHeld'
    <2> SUFFICES ASSUME NEW d \in Callers, InCall(d)', call'[d].op.locks, call'[d].stage # "queued"
                 PROVE  HoldsLock(d)'
        BY SMTT(30) DEF LockHeld
    <2>1. d # c
        BY <1>3, <1>4, Zenon
    <2>2. HoldsLock(d)
        BY <1>4, <1>5, <2>1, Zenon DEF LockHeld
    <2>3. QED
        BY <2>2, SMTT(30) DEF Begin, HoldsLock, CallTypes
<1>11. \A r \in requests, d \in Callers : Sent(r, d)' => d # c /\ Sent(r, d)
    <2>1. \A r \in requests : r.number # started + 1
        BY SMTT(30) DEF Numbered, CallTypes, Requests
    <2>2. QED
        BY <1>3, <1>4, <1>5, <2>1, Zenon DEF Sent
<1>12. RequestsMatch'
    BY <1>4, <1>11, SMTT(30) DEF RequestsMatch
<1>13. Careful'
    <2>1. ~(InCall(c)' /\ call'[c].joiner # None /\ call'[c].stage \in {"check", "write", "writing"})
        BY <1>1, <1>3, <1>4, Zenon
    <2>2. QED
        BY <1>4, <1>5, <1>11, <2>1, Zenon DEF Careful, Keeps
<1>14. QED
    BY <1>7, <1>8, <1>9, <1>10, <1>12, <1>13, Zenon

\* The operations that lock wait for their answers.
LEMMA LockersWait ==
    ASSUME NEW op \in Operations, op.locks
    PROVE  op.waits /\ op \in {enable_joiner, set_commissioner_dataset}
<1>1. enable_joiner.waits /\ set_commissioner_dataset.waits
    BY Zenon DEF Operation, enable_joiner, set_commissioner_dataset
<1>2. ~get_commissioner_dataset.locks /\ ~get_dataset.locks /\ ~set_dataset.locks
    BY Zenon DEF Operation, get_commissioner_dataset, get_dataset, set_dataset
<1>3. ~set_secure_pending_dataset.locks /\ ~register_multicast_listener.locks
    BY Zenon DEF Operation, set_secure_pending_dataset, register_multicast_listener
<1>4. ~command(TRUE).locks /\ ~command(FALSE).locks
    BY Zenon DEF Operation, command
<1>5. ~diagnostic_get.locks /\ ~get_diagnostics.locks /\ ~send_to_joiner.locks
    BY Zenon DEF Operation, diagnostic_get, get_diagnostics, send_to_joiner
<1>6. op \in {enable_joiner, set_commissioner_dataset}
    BY <1>2, <1>3, <1>4, <1>5, OperationsAssumption, Zenon
<1>7. QED
    BY <1>1, <1>6, Zenon

\* A request is sent.
LEMMA Submits ==
    ASSUME WritesInv, NEW c \in Callers, Submit(c)
    PROVE  WritesInv'
<1> USE DEF WritesInv
<1>1. InCall(c) /\ call[c] \in CallRecords
    BY CallFacts, Zenon DEF Submit, InCall
<1>2. CASE ~call[c].op.waits
    <2>1. ~call[c].op.locks
        BY <1>1, <1>2, LockersWait, Zenon DEF CallRecords
    <2>2. QED
        BY <1>2, <2>1, Ends, Zenon DEF Submit
<1>3. CASE call[c].op.waits
    <2> DEFINE stage == IF call[c].stage = "read" THEN "reading" ELSE "writing"
               rec == [call[c] EXCEPT !.stage = stage]
               new == Request(c)
    <2>1. /\ rec \in CallRecords
          /\ rec.stage = stage /\ rec.number = call[c].number /\ rec.op = call[c].op
          /\ rec.joiner = call[c].joiner /\ rec.steering = call[c].steering
        BY <1>1, Zenon DEF CallRecords, Stages
    <2>2. call' = [call EXCEPT ![c] = rec]
        BY <1>3, Zenon DEF Submit, CallTypes
    <2>3. /\ new \in Requests
          /\ new.number = call[c].number /\ new.stage = call[c].stage
          /\ new.joiner = call[c].joiner /\ new.steering = call[c].steering
          /\ ~new.done
        BY <1>1, Zenon DEF Request, Requests, CallRecords, Submit
    <2> HIDE DEF rec, new
    <2>4. /\ call' \in [Callers -> {Idle} \cup CallRecords]
          /\ call'[c] = rec
          /\ \A d \in Callers \ {c} : call'[d] = call[d]
        BY <2>1, <2>2, Zenon DEF CallTypes
    <2>5. /\ call[c].stage \in {"read", "write"}
          /\ requests' \subseteq requests \cup {new}
          /\ new \in requests' => call[c].op.locks \/ new \in requests
          /\ UNCHANGED <<writes, steering, owed, strays, started>>
        BY <1>3, Zenon DEF Submit, new
    <2>6. \A d \in Callers : InCall(d)' => InCall(d)
        BY <1>1, <2>4, Zenon DEF InCall
    <2>7. CallTypes'
        BY <2>3, <2>4, <2>5, Zenon DEF CallTypes
    <2>8. \A r \in requests : r.number # call[c].number
        <3> SUFFICES ASSUME NEW r \in requests, r.number = call[c].number PROVE FALSE
            BY Zenon
        <3>1. r.stage \in {"read", "write"}
            BY SMTT(30) DEF CallTypes, Requests
        <3>2. QED
            BY <1>1, <2>5, <3>1, Zenon DEF RequestsMatch, Sent
    <2>9. Numbered'
        <3>1. \A r \in requests' : r.number <= started'
            BY <2>3, <2>5, Zenon DEF Numbered
        <3>2. \A r, q \in requests' : r.number = q.number => r = q
            BY <2>3, <2>5, <2>8, Zenon DEF Numbered
        <3>3. /\ \A d \in Callers : call'[d].number <= started'
              /\ \A d, e \in Callers : InCall(d)' /\ call'[d].number = call'[e].number => d = e
            BY <2>1, <2>4, <2>5, <2>6, SMTT(30) DEF Numbered
        <3>4. QED
            BY <3>1, <3>2, <3>3, Zenon DEF Numbered
    <2>10. JoinersNamed'
        BY <2>1, <2>4, <2>6, Zenon DEF JoinersNamed
    <2>11. LockHeld'
        BY <1>1, <2>1, <2>4, <2>5, <2>6, Zenon DEF LockHeld, HoldsLock
    <2>12. \A r \in requests', d \in Callers :
              Sent(r, d)' => \/ d = c /\ r = new /\ call[c].op.locks
                             \/ d # c /\ r \in requests /\ Sent(r, d)
        <3> SUFFICES ASSUME NEW r \in requests', NEW d \in Callers, Sent(r, d)'
                     PROVE  \/ d = c /\ r = new /\ call[c].op.locks
                            \/ d # c /\ r \in requests /\ Sent(r, d)
            BY SMTT(30)
        <3>1. r.number = call[d].number /\ InCall(d)
            BY <2>1, <2>4, <2>6, Zenon DEF Sent
        <3>2. CASE r \in requests
            BY <2>8, <3>1, <3>2, Zenon DEF Sent
        <3>3. CASE r \notin requests
            BY <1>1, <2>3, <2>5, <3>1, <3>3, Zenon DEF Numbered
        <3>4. QED
            BY <3>2, <3>3, Zenon
    <2>13. RequestsMatch'
        <3> SUFFICES ASSUME NEW r \in requests', NEW d \in Callers, Sent(r, d)'
                     PROVE  /\ call'[d].op.locks
                            /\ r.stage = "read" => call'[d].stage = "reading"
                            /\ r.stage = "write" =>
                                  /\ call'[d].stage = "writing"
                                  /\ r.joiner = call'[d].joiner
                                  /\ r.steering = call'[d].steering
            BY Zenon DEF RequestsMatch
        <3>1. CASE d = c /\ r = new /\ call[c].op.locks
            BY <2>1, <2>3, <2>4, <2>5, <3>1, Zenon
        <3>2. CASE d # c /\ r \in requests /\ Sent(r, d)
            BY <2>4, <3>2, Zenon DEF RequestsMatch
        <3>3. QED
            BY <2>12, <3>1, <3>2, Zenon
    <2>14. Careful'
        <3>1. \A d \in Callers :
                 InCall(d)' /\ call'[d].joiner # None /\ call'[d].stage \in {"check", "write", "writing"}
                     => /\ InCall(d) /\ call[d].joiner # None
                        /\ call[d].stage \in {"check", "write", "writing"}
                        /\ call'[d].steering = call[d].steering /\ call'[d].joiner = call[d].joiner
            BY <2>1, <2>4, <2>5, <2>6, Zenon
        <3>2. \A r \in requests', d \in Callers : Sent(r, d)' /\ r.done => r \in requests /\ Sent(r, d)
            BY <2>3, <2>12, Zenon
        <3>3. QED
            BY <2>5, <3>1, <3>2, Zenon DEF Careful, Keeps
    <2>15. QED
        BY <2>7, <2>9, <2>10, <2>11, <2>13, <2>14, Zenon
<1>4. QED
    BY <1>2, <1>3, Zenon

\* The lock has one holder: of two calls past its queue, one is the other.
LEMMA OneHolder ==
    ASSUME LockHeld, NEW c \in Callers, NEW d \in Callers, InCall(c), InCall(d),
           call[c].op.locks, call[d].op.locks,
           call[c].stage # "queued", call[d].stage # "queued"
    PROVE  c = d
BY Zenon DEF LockHeld, HoldsLock

\* What enable_joiner read is answered, and it adds its joiner.
LEMMA Reads ==
    ASSUME WritesInv, NEW c \in Callers, ReadDone(c)
    PROVE  WritesInv'
<1> USE DEF WritesInv
<1>1. InCall(c) /\ call[c] \in CallRecords /\ call[c].stage = "reading"
    BY CallFacts, Zenon DEF ReadDone, InCall
<1>2. PICK r \in Answered(c) :
        /\ requests' = requests \ {r}
        /\ call' = [call EXCEPT ![c] =
                      Calling(call[c].number, call[c].op, "check", call[c].joiner,
                              AddJoiner(r.steering, call[c].joiner))]
    BY Zenon DEF ReadDone
<1>3. r \in requests /\ r \in Requests /\ r.done /\ r.number = call[c].number /\ Sent(r, c)
    BY <1>1, <1>2, Zenon DEF Answered, CallTypes, Sent
<1>4. r.stage = "read" /\ call[c].op.locks
    BY <1>1, <1>3, Zenon DEF RequestsMatch, Requests
<1> DEFINE added == AddJoiner(r.steering, call[c].joiner)
           rec == [stage |-> "check", number |-> call[c].number, op |-> call[c].op,
                   joiner |-> call[c].joiner, steering |-> added, address |-> None]
<1>5. call[c].joiner \in Joiners /\ call[c].op = enable_joiner
    BY <1>1, Zenon DEF JoinersNamed, CallRecords
<1>6. added \in Steering /\ added.length = FullLength /\ BloomBits[call[c].joiner] \subseteq added.bits
    BY <1>3, <1>5, AddingKeeps, Zenon DEF Requests, CallTypes
<1>7. ~strays => Keeps(added)
    BY <1>3, <1>4, <1>5, AddingKeeps, Zenon DEF Careful, CallTypes, Requests
<1> HIDE DEF added
<1>8. /\ rec \in CallRecords
      /\ rec.stage = "check" /\ rec.number = call[c].number /\ rec.op = call[c].op
      /\ rec.joiner = call[c].joiner /\ rec.steering = added
    BY <1>1, <1>6, SMTT(30) DEF CallRecords, Stages, None
<1>9. call' = [call EXCEPT ![c] = rec] /\ requests' = requests \ {r}
    BY <1>2, Zenon DEF added, Calling
<1> HIDE DEF rec
<1>10. /\ call' \in [Callers -> {Idle} \cup CallRecords]
       /\ call'[c] = rec
       /\ \A d \in Callers \ {c} : call'[d] = call[d]
       /\ requests' \subseteq requests
       /\ UNCHANGED <<writes, steering, owed, strays, started>>
    <2>2. call \in [Callers -> {Idle} \cup CallRecords]
        BY Zenon DEF CallTypes
    <2>3. call' \in [Callers -> {Idle} \cup CallRecords]
        BY <1>8, <1>9, <2>2, Zenon
    <2>4. call'[c] = rec /\ \A d \in Callers \ {c} : call'[d] = call[d]
        BY <1>9, <2>2, Zenon
    <2>5. UNCHANGED <<writes, steering, owed, strays, started>>
        BY SMTT(30) DEF ReadDone
    <2>6. QED
        BY <1>9, <2>3, <2>4, <2>5, Zenon
<1>11. \A d \in Callers : InCall(d)' => InCall(d)
    BY <1>1, <1>10, Zenon DEF InCall
<1>12. \A q \in requests', d \in Callers : Sent(q, d)' => d # c /\ q \in requests /\ Sent(q, d)
    <2> SUFFICES ASSUME NEW q \in requests', NEW d \in Callers, Sent(q, d)'
                 PROVE  d # c /\ q \in requests /\ Sent(q, d)
        BY SMTT(30)
    <2>1. q \in requests /\ q # r /\ Sent(q, d)
        BY <1>2, <1>8, <1>10, <1>11, Zenon DEF Sent
    <2>2. q.number # r.number
        BY <1>3, <2>1, Zenon DEF Numbered
    <2>3. QED
        BY <1>3, <2>1, <2>2, Zenon DEF Sent
<1>13. CallTypes'
    BY <1>10, Zenon DEF CallTypes
<1>14. Numbered'
    BY <1>8, <1>10, <1>11, SMTT(30) DEF Numbered
<1>15. JoinersNamed'
    BY <1>5, <1>8, <1>10, <1>11, HandlesAssumption, Zenon DEF JoinersNamed
<1>16. LockHeld'
    BY <1>1, <1>4, <1>8, <1>10, <1>11, Zenon DEF LockHeld, HoldsLock
<1>17. RequestsMatch'
    BY <1>10, <1>12, ZenonT(60) DEF RequestsMatch
<1>18. Careful'
    <2> SUFFICES ASSUME ~strays PROVE Careful'
        BY <1>10, Zenon DEF Careful
    <2>1. Keeps(steering)'
        BY <1>10, Zenon DEF Careful, Keeps
    <2>2. ASSUME NEW d \in Callers, InCall(d)', call'[d].joiner # None,
                 call'[d].stage \in {"check", "write", "writing"}
          PROVE  /\ Keeps(call[d].steering)'
                 /\ call'[d].steering.length = FullLength
                 /\ BloomBits[call'[d].joiner] \subseteq call'[d].steering.bits
        <3>1. CASE d = c
            BY <1>6, <1>7, <1>8, <1>10, <3>1, Zenon DEF Keeps
        <3>2. CASE d # c
            BY <1>10, <1>11, <2>2, <3>2, Zenon DEF Careful, Keeps
        <3>3. QED
            BY <3>1, <3>2, Zenon
    <2>3. \A q \in requests', d \in Callers : Sent(q, d)' /\ q.done =>
              /\ q.stage = "read" => Keeps(q.steering)'
              /\ q.stage = "write" /\ q.joiner # None => steering' = q.steering
        BY <1>10, <1>12, Zenon DEF Careful, Keeps
    <2>4. QED
        BY <2>1, <2>2, <2>3, Zenon DEF Careful
<1>19. QED
    BY <1>13, <1>14, <1>15, <1>16, <1>17, <1>18, Zenon

\* A write is answered, and its joiner is enabled.
LEMMA Writes ==
    ASSUME WritesInv, NEW c \in Callers, WriteDone(c)
    PROVE  WritesInv'
<1> USE DEF WritesInv
<1>1. InCall(c) /\ call[c] \in CallRecords /\ call[c].stage = "writing" /\ Return(c)
    BY CallFacts, Zenon DEF WriteDone, InCall
<1>2. CASE ~call[c].op.locks
    BY <1>1, <1>2, Ends, Zenon DEF WriteDone
<1>3. CASE call[c].op.locks
    <2>1. PICK r \in Answered(c) :
            /\ requests' = requests \ {r}
            /\ owed' = IF r.joiner = None THEN owed ELSE owed \cup {r.joiner}
        BY <1>3, Zenon DEF WriteDone
    <2>2. CASE r.joiner = None
        BY <1>1, <2>1, <2>2, Ends, Zenon DEF WriteDone
    <2>3. CASE r.joiner # None
        <3>1. r \in requests /\ r \in Requests /\ r.done /\ Sent(r, c)
            BY <1>1, <2>1, Zenon DEF Answered, CallTypes, Sent
        <3>2. /\ r.stage = "write" /\ r.joiner = call[c].joiner /\ r.joiner \in Joiners
              /\ r.steering = call[c].steering
            BY <1>1, <2>3, <3>1, Zenon DEF RequestsMatch, Requests
        <3>3. /\ CallTypes' /\ Numbered' /\ JoinersNamed' /\ LockHeld' /\ RequestsMatch'
              /\ \A d \in Callers : InCall(d)' => d # c /\ InCall(d) /\ call'[d] = call[d]
              /\ \A q \in requests', d \in Callers : Sent(q, d)' => d # c /\ Sent(q, d)
            <4>1. requests' \subseteq requests /\ owed' \subseteq Joiners
                BY <2>1, <3>2, Zenon DEF CallTypes
            <4>2. QED
                BY <1>1, <4>1, Leaves, Zenon DEF WriteDone
        \* Nobody else is past the lock's queue.
        <3>4. \A d \in Callers : InCall(d)' /\ call'[d].op.locks => call'[d].stage = "queued"
            BY <1>1, <1>3, <3>3, OneHolder, Zenon
        <3>5. \A q \in requests', d \in Callers : ~Sent(q, d)'
            BY <3>3, <3>4, Zenon DEF RequestsMatch, CallTypes, Requests, Sent
        <3>6. \A d \in Callers : InCall(d)' /\ call'[d].joiner # None => call'[d].stage = "queued"
            <4> SUFFICES ASSUME NEW d \in Callers, InCall(d)', call'[d].joiner # None
                         PROVE  call'[d].stage = "queued"
                BY SMTT(30)
            <4>1. call'[d].op = enable_joiner
                BY <3>3, Zenon DEF JoinersNamed
            <4>2. enable_joiner.locks
                BY SMTT(30) DEF enable_joiner, Operation
            <4>3. QED
                BY <3>4, <4>1, <4>2, Zenon
        <3>7. ~strays => Keeps(steering)'
            BY <1>1, <2>1, <3>1, <3>2, Zenon DEF Careful, Keeps, WriteDone
        <3>8. Careful'
            BY <3>5, <3>6, <3>7, Zenon DEF Careful, WriteDone
        <3>9. QED
            BY <3>3, <3>8, Zenon
    <2>4. QED
        BY <2>2, <2>3, Zenon
<1>4. QED
    BY <1>2, <1>3, Zenon

\* The leader has taken request r, of which at most the answer q is left.
LEMMA Replaced ==
    ASSUME WritesInv, NEW r \in requests, NEW q \in Requests,
           q.number = r.number, q.stage = r.stage, q.joiner = r.joiner,
           r.stage = "write" => q.steering = r.steering,
           requests' \subseteq (requests \ {r}) \cup {q},
           steering' \in Steering, owed' \subseteq Joiners, strays' \in BOOLEAN,
           UNCHANGED <<call, writes, started>>
    PROVE  CallTypes' /\ Numbered' /\ JoinersNamed' /\ LockHeld' /\ RequestsMatch'
<1> USE DEF WritesInv
<1>1. CallTypes'
    BY Zenon DEF CallTypes
<1>2. Numbered'
    BY Zenon DEF Numbered, InCall
<1>3. JoinersNamed' /\ LockHeld'
    BY Zenon DEF JoinersNamed, LockHeld, InCall, HoldsLock
<1>4. RequestsMatch'
    BY DEF RequestsMatch, Sent, InCall, CallTypes, Requests
<1>5. QED
    BY <1>1, <1>2, <1>3, <1>4, Zenon

\* The leader reads or replaces its steering data.
LEMMA Executes ==
    ASSUME WritesInv, NEW r \in requests, Execute(r)
    PROVE  WritesInv'
<1> USE DEF WritesInv
<1>1. /\ r \in Requests /\ ~r.done
      /\ steering \in Steering /\ owed \subseteq Joiners /\ strays \in BOOLEAN
      /\ UNCHANGED <<call, writes, started>>
    BY Zenon DEF Execute, CallTypes
<1>2. CASE r.stage = "read"
    <2> DEFINE q == [r EXCEPT !.done = TRUE, !.steering = steering]
    <2>1. /\ q \in Requests /\ q.number = r.number /\ q.stage = r.stage /\ q.joiner = r.joiner
          /\ q.steering = steering
        BY <1>1, Zenon DEF Requests
    <2>2. requests' = (requests \ {r}) \cup {q} /\ UNCHANGED <<steering, owed, strays>>
        BY <1>2, Zenon DEF Execute
    <2> HIDE DEF q
    <2>3. CallTypes' /\ Numbered' /\ JoinersNamed' /\ LockHeld' /\ RequestsMatch'
        <3>1. requests' \subseteq (requests \ {r}) \cup {q}
            BY <2>2, Zenon
        <3>2. steering' \in Steering /\ owed' \subseteq Joiners /\ strays' \in BOOLEAN
            BY <1>1, <2>2, Zenon
        <3>3. QED
            BY <1>1, <1>2, <2>1, <3>1, <3>2, Replaced, Zenon
    <2>4. Careful'
        BY <1>1, <1>2, <2>1, <2>2, Zenon DEF Careful, Keeps, Sent, InCall
    <2>5. QED
        BY <2>3, <2>4, Zenon
<1>3. CASE r.stage = "write"
    <2> DEFINE q == [r EXCEPT !.done = TRUE]
    <2>1. /\ q \in Requests /\ q.number = r.number /\ q.stage = r.stage /\ q.joiner = r.joiner
          /\ q.steering = r.steering /\ r.steering \in Steering
        BY <1>1, Zenon DEF Requests
    <2>2. /\ requests' = (requests \ {r}) \cup IF Abandoned(r) THEN {} ELSE {q}
          /\ steering' = r.steering
          /\ strays' = (strays \/ Abandoned(r))
          /\ owed' = IF r.joiner = None THEN {} ELSE owed
        BY <1>3, Zenon DEF Execute
    <2> HIDE DEF q
    <2>3. CallTypes' /\ Numbered' /\ JoinersNamed' /\ LockHeld' /\ RequestsMatch'
        <3>1. requests' \subseteq (requests \ {r}) \cup {q}
            BY <2>2, Zenon
        <3>2. steering' \in Steering /\ owed' \subseteq Joiners
            BY <1>1, <2>1, <2>2, Zenon
        <3>3. strays' \in BOOLEAN
            BY <2>2, Zenon
        <3>4. QED
            BY <1>1, <1>3, <2>1, <3>1, <3>2, <3>3, Replaced, Zenon
    <2>4. CASE Abandoned(r)
        <3>1. strays'
            BY <2>2, <2>4, Zenon
        <3>2. QED
            BY <2>3, <3>1, Zenon DEF Careful
    <2>5. CASE ~Abandoned(r)
        <3>1. PICK c \in Callers : call[c].number = r.number
            BY <2>5, Zenon DEF Abandoned
        <3>2. InCall(c) /\ Sent(r, c)
            BY <1>1, <3>1, CallFacts, Zenon DEF Requests, Sent
        <3>3. /\ call[c].op.locks /\ call[c].stage = "writing"
              /\ r.joiner = call[c].joiner /\ r.steering = call[c].steering
            BY <1>3, <3>2, Zenon DEF RequestsMatch
        <3>4. requests' = (requests \ {r}) \cup {q} /\ owed' \subseteq owed
            BY <2>2, <2>5, Zenon
        <3>5. \A s : Keeps(s) => Keeps(s)'
            BY <3>4, Zenon DEF Keeps
        \* The answer is the only one that is waited for: its caller holds the lock.
        <3>6. \A x \in requests', d \in Callers : Sent(x, d)' => x = q
            <4> SUFFICES ASSUME NEW x \in requests', NEW d \in Callers, Sent(x, d)', x # q
                         PROVE  FALSE
                BY SMTT(30)
            <4>1. x \in requests /\ x # r /\ Sent(x, d) /\ x \in Requests
                BY <1>1, <3>4, Zenon DEF Sent, InCall, CallTypes
            <4>2. InCall(d) /\ call[d].op.locks /\ call[d].stage # "queued"
                BY <4>1, Zenon DEF RequestsMatch, Requests, Sent
            <4>3. d = c
                BY <3>2, <3>3, <4>2, OneHolder, Zenon
            <4>4. x.number = r.number
                BY <3>1, <4>1, <4>3, Zenon DEF Sent
            <4>5. QED
                BY <4>1, <4>4, Zenon DEF Numbered
        <3>7. ASSUME ~strays' PROVE Keeps(steering)'
            <4>1. ~strays
                BY <2>2, <3>7, Zenon
            <4>2. CASE r.joiner = None
                BY <2>2, <4>2, Zenon DEF Keeps
            <4>3. CASE r.joiner # None
                BY <2>2, <3>2, <3>3, <3>5, <4>1, <4>3, Zenon DEF Careful
            <4>4. QED
                BY <4>2, <4>3, Zenon
        <3>8. Careful'
            BY <1>1, <1>3, <2>1, <2>2, <3>5, <3>6, <3>7, Zenon DEF Careful, InCall
        <3>9. QED
            BY <2>3, <3>8, Zenon
    <2>6. QED
        BY <2>4, <2>5, Zenon
<1>4. QED
    BY <1>1, <1>2, <1>3, Zenon DEF Requests

\* The lock, the session check and the prefix lookup take a call on.
LEMMA Proceeds ==
    ASSUME WritesInv, TypeOK, NEW c \in Callers,
           Acquire(c) \/ CheckSession(c) \/ UseCached(c) \/ UseFetched(c)
    PROVE  WritesInv'
<1>1. /\ InCall(c) /\ call[c] \in CallRecords
      /\ call[c].stage \in {"queued", "check", "read", "write"}
      /\ UNCHANGED <<writes, requests, steering, owed, strays, started>>
    BY CallFacts, Zenon DEF WritesInv, Acquire, CheckSession, UseCached, UseFetched,
       NeedsAddress, InCall
<1>2. call[c].joiner # None <=> call[c].op = enable_joiner
    BY <1>1, Zenon DEF WritesInv, JoinersNamed
<1>3. call[c].op.locks /\ call[c].stage # "queued" => HoldsLock(c)
    BY <1>1, Zenon DEF WritesInv, LockHeld
<1>4. ASSUME NEW stage \in {"read", "check", "write"},
             call' = [call EXCEPT ![c].stage = stage],
             stage \in {"check", "write"} /\ call[c].joiner # None => call[c].stage \in {"check", "write"},
             stage = "read" => call[c].op = enable_joiner,
             call[c].op.locks => HoldsLock(c)
      PROVE  WritesInv'
    <2> DEFINE rec == [call[c] EXCEPT !.stage = stage]
    <2>1. /\ rec \in CallRecords /\ rec.stage = stage /\ rec.number = call[c].number
          /\ rec.op = call[c].op /\ rec.joiner = call[c].joiner /\ rec.steering = call[c].steering
        BY <1>1, <1>4, Zenon DEF CallRecords, Stages
    <2>2. call' = [call EXCEPT ![c] = rec]
        BY <1>4, Zenon
    <2> HIDE DEF rec
    <2>3. Becomes(c, rec)
        BY <2>1, <2>2, Zenon DEF Becomes
    <2>4. /\ rec.stage \notin {"queued", "reading", "writing"}
          /\ call[c].stage \notin {"reading", "writing"}
          /\ rec.stage \in {"check", "write"} /\ rec.joiner # None => call[c].stage \in {"check", "write"}
          /\ rec.stage = "read" => rec.op = enable_joiner
          /\ rec.op.locks => HoldsLock(c)
        BY <1>1, <1>4, <2>1, Zenon
    <2>5. QED
        BY <1>1, <2>1, <2>3, <2>4, GoesOn, Zenon
<1>5. ASSUME NEW a \in Int, call' = [call EXCEPT ![c].address = a], call[c].stage \in {"read", "write"}
      PROVE  WritesInv'
    <2> DEFINE rec == [call[c] EXCEPT !.address = a]
    <2>1. /\ rec \in CallRecords /\ rec.stage = call[c].stage /\ rec.number = call[c].number
          /\ rec.op = call[c].op /\ rec.joiner = call[c].joiner /\ rec.steering = call[c].steering
        BY <1>1, <1>5, Zenon DEF CallRecords
    <2>2. call' = [call EXCEPT ![c] = rec]
        BY <1>5, Zenon
    <2>3. rec.stage = "read" => rec.op = enable_joiner
        BY <1>1, <2>1, Zenon DEF WritesInv, JoinersNamed
    <2> HIDE DEF rec
    <2>4. QED
        BY <1>1, <1>3, <1>5, <2>1, <2>2, <2>3, GoesOn, Zenon DEF Becomes
<1>6. CASE Acquire(c)
    <2>1. HoldsLock(c) /\ call' = [call EXCEPT ![c].stage = FirstStage(call[c].op)]
        BY <1>6, Zenon DEF Acquire
    <2>2. CASE call[c].op = enable_joiner
        <3>1. call' = [call EXCEPT ![c].stage = "read"]
            BY <2>1, <2>2, Zenon DEF FirstStage
        <3>2. QED
            BY <1>4, <2>1, <2>2, <3>1, Zenon
    <2>3. CASE call[c].op # enable_joiner
        <3>1. call' = [call EXCEPT ![c].stage = "check"]
            BY <2>1, <2>3, Zenon DEF FirstStage
        <3>2. QED
            BY <1>2, <1>4, <2>1, <2>3, <3>1, Zenon
    <2>4. QED
        BY <2>2, <2>3, Zenon
<1>7. CASE CheckSession(c)
    BY <1>3, <1>4, <1>7, Zenon DEF CheckSession
<1>8. CASE UseCached(c)
    <2>1. prefix \in Int
        BY DEF TypeOK, None
    <2>2. QED
        BY <1>5, <1>8, <2>1, Zenon DEF UseCached, NeedsAddress
<1>9. CASE UseFetched(c)
    <2>1. read[c] \in Int
        BY DEF TypeOK, None
    <2>2. QED
        BY <1>5, <1>9, <2>1, Zenon DEF UseFetched, NeedsAddress
<1>10. QED
    BY <1>6, <1>7, <1>8, <1>9, Zenon

\* Every operation is called with a joiner or data of its own.
LEMMA CallsBegin ==
    ASSUME WritesInv, NEW c \in Callers, Calls(c)
    PROVE  WritesInv'
<1>1. NoSteering \in Steering /\ \A b \in BOOLEAN : AllJoiners(b) \in Steering
    BY Zenon DEF NoSteering, AllJoiners, Steering
<1>2. PICK op \in Operations :
        CASE op = enable_joiner -> \E j \in Joiners : Begin(c, op, j, NoSteering)
          [] op = set_commissioner_dataset ->
                \E enable \in BOOLEAN : Begin(c, op, None, AllJoiners(enable))
          [] OTHER -> Begin(c, op, None, NoSteering)
    BY Zenon DEF Calls
<1>3. enable_joiner # set_commissioner_dataset
    BY Zenon DEF enable_joiner, set_commissioner_dataset, Operation
<1>4. CASE op = enable_joiner
    <2>1. PICK j \in Joiners : Begin(c, op, j, NoSteering)
        BY <1>2, <1>3, <1>4, Zenon
    <2>2. j # None
        BY HandlesAssumption, Zenon
    <2>3. QED
        BY <1>1, <1>4, <2>1, <2>2, Begins, Zenon
<1>5. CASE op = set_commissioner_dataset
    <2>1. PICK enable \in BOOLEAN : Begin(c, op, None, AllJoiners(enable))
        BY <1>2, <1>3, <1>5, Zenon
    <2>2. AllJoiners(enable) \in Steering /\ op # enable_joiner
        BY <1>1, <1>3, <1>5, Zenon
    <2>3. QED
        BY <2>1, <2>2, Begins, Zenon
<1>6. CASE op # enable_joiner /\ op # set_commissioner_dataset
    BY <1>1, <1>2, <1>6, Begins, Zenon
<1>7. QED
    BY <1>4, <1>5, <1>6, Zenon

\* Every step of a caller, of the leader and of the driver keeps WritesInv.
LEMMA StepWrites ==
    ASSUME WritesInv, TypeOK, [HandlesNext]_allVars
    PROVE  WritesInv'
<1>1. ASSUME NEW c \in Callers, Calls(c) PROVE WritesInv'
    BY <1>1, CallsBegin, Zenon
<1>2. ASSUME NEW c \in Callers, Acquire(c) \/ CheckSession(c) \/ UseCached(c) \/ UseFetched(c)
      PROVE  WritesInv'
    BY <1>2, Proceeds, Zenon
<1>3. ASSUME NEW c \in Callers, Fetch(c) PROVE WritesInv'
    BY <1>3, Elsewhere, Zenon DEF Fetch, handles, written
<1>4. ASSUME NEW c \in Callers, Submit(c) PROVE WritesInv'
    BY <1>4, Submits
<1>5. ASSUME NEW c \in Callers, ReadDone(c) PROVE WritesInv'
    BY <1>5, Reads
<1>6. ASSUME NEW c \in Callers, WriteDone(c) PROVE WritesInv'
    BY <1>6, Writes
<1>7. ASSUME NEW c \in Callers, Fails(c) PROVE WritesInv'
    <2>1. requests' \subseteq requests /\ Return(c) /\ UNCHANGED <<steering, owed, strays, started>>
        BY <1>7, Zenon DEF Fails
    <2>2. QED
        BY <2>1, Ends, Zenon
<1>8. ASSUME NEW r \in requests, Execute(r) PROVE WritesInv'
    BY <1>8, Executes, Zenon
<1>9. CASE Activate \/ EndSession \/ DatasetChanges \/ NotificationArrives \/ PublishChange \/ Subscriber
    BY <1>9, Elsewhere, Zenon DEF Activate, EndSession, DatasetChanges, NotificationArrives,
       PublishChange,
                           Subscriber, handles, written
<1>10. CASE UNCHANGED allVars
    BY <1>10, Elsewhere, Zenon DEF allVars, handles, written
<1>11. QED
    BY <1>1, <1>2, <1>3, <1>4, <1>5, <1>6, <1>7, <1>8, <1>9, <1>10, Zenon
       DEF HandlesNext, CallerSteps

\* At first nobody calls, and nothing is owed.
LEMMA InitWrites == HandlesInit => WritesInv
<1> SUFFICES ASSUME HandlesInit PROVE WritesInv
    BY Zenon
<1>1. \A c \in Callers : call[c] = Idle /\ ~InCall(c) /\ call[c].number = 0
    BY Zenon DEF HandlesInit, InCall, Idle
<1>2. CallTypes
    <2>1. NoSteering \in Steering
        BY Zenon DEF NoSteering, Steering
    <2>2. <<>> \in Seq(Callers)
        OBVIOUS
    <2>3. QED
        BY <2>1, <2>2, Zenon DEF HandlesInit, CallTypes
<1>3. Numbered /\ JoinersNamed /\ LockHeld /\ RequestsMatch
    BY <1>1, SMTT(30) DEF HandlesInit, Numbered, JoinersNamed, LockHeld, RequestsMatch
<1>4. Careful
    BY <1>1, Zenon DEF HandlesInit, Careful, Keeps
<1>5. QED
    BY <1>2, <1>3, <1>4, Zenon DEF WritesInv

-----------------------------------------------------------------------------
(* The prefix cache and the events. *)

\* What the handles do to the cache is what PrefixCache lets its callers do.
LEMMA CacheSteps == [HandlesNext]_allVars => [PrefixNext]_prefixVars
<1> SUFFICES ASSUME [HandlesNext]_allVars PROVE PrefixNext \/ UNCHANGED prefixVars
    BY Zenon
<1>1. ASSUME NEW c \in Callers, CallerSteps(c) PROVE PrefixNext \/ UNCHANGED prefixVars
    <2>1. CASE Calls(c)
        BY <2>1, Zenon DEF Calls, Begin
    <2>2. CASE Acquire(c) \/ CheckSession(c) \/ UseCached(c)
        BY <2>2, Zenon DEF Acquire, CheckSession, UseCached
    <2>3. CASE Fetch(c)
        BY <2>3, Zenon DEF Fetch, PrefixNext
    <2>4. CASE UseFetched(c)
        BY <2>4, Zenon DEF UseFetched, PrefixNext
    <2>5. CASE Submit(c) \/ ReadDone(c) \/ WriteDone(c)
        BY <2>5, Zenon DEF Submit, ReadDone, WriteDone
    <2>6. CASE Fails(c)
        BY <2>6, Zenon DEF Fails, PrefixNext
    <2>7. QED
        BY <1>1, <2>1, <2>2, <2>3, <2>4, <2>5, <2>6, Zenon DEF CallerSteps
<1>2. ASSUME NEW r \in requests, Execute(r) PROVE UNCHANGED prefixVars
    BY <1>2, Zenon DEF Execute
<1>3. CASE Activate \/ EndSession \/ PublishChange \/ Subscriber
    BY <1>3, Zenon DEF Activate, EndSession, PublishChange, Subscriber
<1>4. CASE DatasetChanges \/ NotificationArrives
    BY <1>4, Zenon DEF DatasetChanges, NotificationArrives, PrefixNext
<1>5. CASE UNCHANGED allVars
    BY <1>5, Zenon DEF allVars
<1>6. QED
    BY <1>1, <1>2, <1>3, <1>4, <1>5, Zenon DEF HandlesNext

\* The subscriber's place in the events; nothing is published once the channel
\* is closed.
EventsInv ==
    /\ log \in Seq(Nat) /\ notifying \in Seq(Nat)
    /\ position \in Nat /\ missed \in Nat /\ got \in Nat /\ heard \in Nat
    /\ EventsAccounted
    /\ ended => ~sending
    /\ ~sending => status = "Closed" /\ notifying = <<>>

\* n has been announced to the subscriber, or is on its way there.
Announced(n) ==
    \/ n = heard
    \/ \E i \in 1..Len(log) : n = log[i]
    \/ \E i \in 1..Len(notifying) : n = notifying[i]

\* Nothing that is cached, or would be, is older than what was announced.
NothingOlder ==
    \A n \in Nat : Announced(n) =>
        /\ n <= current
        /\ prefix # None => prefix >= n
        /\ \A c \in Callers : step[c] = "answered" /\ noted[c] = generation => read[c] >= n

\* What happens elsewhere leaves the events alone.
LEMMA EventsElsewhere ==
    ASSUME EventsInv, UNCHANGED <<subscription, notifying, status>>
    PROVE  EventsInv' /\ \A n : Announced(n)' <=> Announced(n)
BY Zenon DEF EventsInv, EventsAccounted, subscription, Announced

\* An event is published.
LEMMA Publishes ==
    ASSUME EventsInv, PublishChange
    PROVE  EventsInv' /\ \A n \in Nat : Announced(n)' => Announced(n)
<1>1. /\ log \in Seq(Nat) /\ notifying \in Seq(Nat) /\ notifying # <<>> /\ sending
      /\ position \in Nat /\ missed \in Nat /\ got \in Nat /\ heard \in Nat
      /\ log' = Append(log, Head(notifying)) /\ notifying' = Tail(notifying)
      /\ UNCHANGED <<sending, position, heard, missed, got, ended, status>>
    BY Zenon DEF EventsInv, PublishChange, Publish
<1>2. /\ log' \in Seq(Nat) /\ Len(log') = Len(log) + 1
      /\ \A i \in 1..Len(log') : log'[i] = IF i <= Len(log) THEN log[i] ELSE notifying[1]
    BY <1>1
<1>3. /\ notifying' \in Seq(Nat) /\ Len(notifying) \in Nat \ {0} /\ Len(notifying') = Len(notifying) - 1
      /\ \A i \in 1..Len(notifying') : notifying'[i] = notifying[i + 1]
    BY <1>1
<1>4. ~ended /\ Len(log) \in Nat
    BY <1>1 DEF EventsInv
<1>5. EventsAccounted'
    BY <1>1, <1>2, <1>4, SMTT(30) DEF EventsInv, EventsAccounted
<1>6. EventsInv'
    BY <1>1, <1>2, <1>3, <1>4, <1>5, Zenon DEF EventsInv
<1>7. \A n \in Nat : Announced(n)' => Announced(n)
    <2> SUFFICES ASSUME NEW n \in Nat, Announced(n)' PROVE Announced(n)
        BY Zenon
    <2>1. CASE n = heard'
        BY <1>1, <2>1, Zenon DEF Announced
    <2>2. ASSUME NEW i \in 1..Len(log'), n = log'[i] PROVE Announced(n)
        <3>1. CASE i <= Len(log)
            BY <1>2, <1>4, <2>2, <3>1, SMTT(30) DEF Announced
        <3>2. CASE ~(i <= Len(log))
            BY <1>2, <1>3, <2>2, <3>2 DEF Announced
        <3>3. QED
            BY <3>1, <3>2, Zenon
    <2>3. ASSUME NEW i \in 1..Len(notifying'), n = notifying'[i] PROVE Announced(n)
        <3>1. i + 1 \in 1..Len(notifying) /\ n = notifying[i + 1]
            BY <1>3, <2>3
        <3>2. QED
            BY <3>1, Zenon DEF Announced
    <2>4. QED
        BY <2>1, <2>2, <2>3, Zenon DEF Announced
<1>8. QED
    BY <1>6, <1>7, Zenon

\* The subscriber takes an event, is told of lost ones, or of the end.
LEMMA Subscribes ==
    ASSUME EventsInv, Subscriber
    PROVE  EventsInv' /\ \A n \in Nat : Announced(n)' => Announced(n)
<1>1. /\ log \in Seq(Nat) /\ Len(log) \in Nat /\ position \in Nat /\ missed \in Nat /\ got \in Nat
      /\ heard \in Nat /\ got + missed = position /\ position <= Len(log)
      /\ NextEvent /\ log' = log /\ sending' = sending /\ UNCHANGED <<notifying, status>>
    BY DEF EventsInv, EventsAccounted, Subscriber, NextEvent, handles
<1>2. CASE /\ position < Oldest
           /\ missed' = missed + Oldest - position
           /\ position' = Oldest
           /\ UNCHANGED <<heard, got, ended>>
    <2>1. Oldest \in Nat /\ Oldest <= Len(log) /\ ~ended
        BY <1>1, CapacityAssumption, SMTT(30) DEF Oldest, NextEvent
    <2>2. QED
        BY <1>1, <1>2, <2>1 DEF EventsInv, EventsAccounted, Announced
<1>3. CASE /\ position < Len(log)
           /\ position' = position + 1
           /\ heard' = log[position + 1]
           /\ got' = got + 1
           /\ UNCHANGED <<missed, ended>>
    <2>1. position + 1 \in 1..Len(log) /\ log[position + 1] \in Nat /\ ~ended
        BY <1>1, <1>3 DEF NextEvent
    <2>2. EventsInv'
        BY <1>1, <1>3, <2>1 DEF EventsInv, EventsAccounted
    <2>3. \A n \in Nat : Announced(n)' => Announced(n)
        BY <1>1, <1>3, <2>1, Zenon DEF Announced
    <2>4. QED
        BY <2>2, <2>3
<1>4. CASE /\ position = Len(log)
           /\ ~sending
           /\ ended' = TRUE
           /\ UNCHANGED <<position, heard, missed, got>>
    BY <1>1, <1>4, Zenon DEF EventsInv, EventsAccounted, Announced
<1>5. QED
    BY <1>1, <1>2, <1>3, <1>4, Zenon DEF NextEvent

\* Every step keeps the subscriber's place, and tells it of nothing but dataset
\* changes that the driver has seen.
LEMMA StepEvents ==
    ASSUME EventsInv, TypeOK, [HandlesNext]_allVars
    PROVE  /\ EventsInv'
           /\ ~NotificationArrives => \A n \in Nat : Announced(n)' => Announced(n)
<1>1. ASSUME NEW c \in Callers, CallerSteps(c) PROVE UNCHANGED <<subscription, notifying, status>>
    BY <1>1, Zenon DEF CallerSteps, Calls, Begin, Acquire, CheckSession, UseCached, Fetch,
       UseFetched, Submit,
                ReadDone, WriteDone, Fails, handles
<1>2. ASSUME NEW r \in requests, Execute(r) PROVE UNCHANGED <<subscription, notifying, status>>
    BY <1>2, Zenon DEF Execute
<1>3. CASE DatasetChanges \/ UNCHANGED allVars
    BY <1>3, EventsElsewhere, Zenon DEF DatasetChanges, handles, allVars
<1>4. CASE Activate
    BY <1>4, Zenon DEF Activate, EventsInv, EventsAccounted, Announced, subscription
<1>5. CASE EndSession
    BY <1>5, Zenon DEF EndSession, CloseChannel, EventsInv, EventsAccounted, Announced
<1>6. CASE NotificationArrives
    <2>1. /\ current \in Nat /\ notifying' = <<current>> /\ sending
          /\ UNCHANGED <<subscription, status>>
        BY <1>6, Zenon DEF NotificationArrives, EventsInv, TypeOK
    <2>2. <<current>> \in Seq(Nat)
        BY <2>1
    <2>3. QED
        BY <1>6, <2>1, <2>2, Zenon DEF EventsInv, EventsAccounted, subscription
<1>7. CASE PublishChange
    BY <1>7, Publishes, Zenon
<1>8. CASE Subscriber
    BY <1>8, Subscribes, Zenon
<1>9. QED
    BY <1>1, <1>2, <1>3, <1>4, <1>5, <1>6, <1>7, <1>8, EventsElsewhere, Zenon DEF HandlesNext

\* The cache and the fetches keep up with what is announced: an invalidation
\* comes first, and outdates every fetch that was answered before it.
LEMMA StepOlder ==
    ASSUME EventsInv, TypeOK, NothingOlder, [HandlesNext]_allVars
    PROVE  NothingOlder'
<1> DEFINE Newer(n) ==
        /\ n <= current
        /\ prefix # None => prefix >= n
        /\ \A c \in Callers : step[c] = "answered" /\ noted[c] = generation => read[c] >= n
<1>1. CASE NotificationArrives
    <2>1. /\ current' = current /\ prefix' = None /\ generation' = generation + 1
          /\ noted' = noted /\ notifying' = <<current>> /\ UNCHANGED <<heard, log>>
        BY <1>1, Zenon DEF NotificationArrives, Invalidate, subscription
    <2>2. ASSUME NEW n \in Nat, Announced(n)' PROVE n <= current
        <3>1. CASE n = heard' \/ \E i \in 1..Len(log') : n = log'[i]
            BY <2>1, <3>1, Zenon DEF NothingOlder, Announced
        <3>2. CASE \E i \in 1..Len(notifying') : n = notifying'[i]
            BY <2>1, <3>2
        <3>3. QED
            BY <2>2, <3>1, <3>2, Zenon DEF Announced
    <2>3. \A c \in Callers : noted'[c] # generation'
        BY <2>1, SMTT(30) DEF TypeOK
    <2>4. QED
        BY <2>1, <2>2, <2>3, Zenon DEF NothingOlder
<1>2. CASE ~NotificationArrives
    <2> SUFFICES ASSUME NEW n \in Nat, Announced(n)' PROVE Newer(n)'
        BY Zenon DEF NothingOlder
    <2>1. Newer(n)
        BY <1>2, StepEvents, Zenon DEF NothingOlder
    <2>2. CASE UNCHANGED prefixVars
        BY <2>1, <2>2, Zenon DEF prefixVars
    <2>3. ASSUME NEW c \in Callers, Lookup(c) PROVE Newer(n)'
        BY <2>1, <2>3, Zenon DEF Lookup, TypeOK
    <2>4. ASSUME NEW c \in Callers, Answer(c) PROVE Newer(n)'
        BY <2>1, <2>4, Zenon DEF Answer, TypeOK
    <2>5. ASSUME NEW c \in Callers, Fail(c) PROVE Newer(n)'
        BY <2>1, <2>5, Zenon DEF Fail, TypeOK
    <2>6. ASSUME NEW c \in Callers, Store(c) PROVE Newer(n)'
        BY <2>1, <2>6, Zenon DEF Store, TypeOK
    <2>7. CASE Change
        BY <2>1, <2>7 DEF Change, TypeOK
    <2>8. CASE Invalidate
        BY <2>1, <2>8 DEF Invalidate, TypeOK, None
    <2>9. PrefixNext \/ UNCHANGED prefixVars
        BY CacheSteps, Zenon
    <2>10. QED
        BY <2>2, <2>3, <2>4, <2>5, <2>6, <2>7, <2>8, <2>9, Zenon DEF PrefixNext
<1>3. QED
    BY <1>1, <1>2, Zenon

-----------------------------------------------------------------------------
(* What the handles promise. *)

HandlesInv == PrefixInv /\ WritesInv /\ EventsInv /\ NothingOlder

\* At first the cache is empty, and no call and no event is under way.
LEMMA InitHandles == HandlesInit => HandlesInv
<1> SUFFICES ASSUME HandlesInit PROVE HandlesInv
    BY Zenon
<1>1. PrefixInv /\ WritesInv
    BY InitFresh, InitWrites, Zenon DEF HandlesInit
<1>2. EventsInv
    BY DEF HandlesInit, SubscriptionInit, EventsInv, EventsAccounted
<1>3. NothingOlder
    BY DEF HandlesInit, SubscriptionInit, PrefixInit, NothingOlder, Announced
<1>4. QED
    BY <1>1, <1>2, <1>3, Zenon DEF HandlesInv

\* Every step keeps the invariant.
LEMMA StepHandles == HandlesInv /\ [HandlesNext]_allVars => HandlesInv'
<1> SUFFICES ASSUME HandlesInv, [HandlesNext]_allVars PROVE HandlesInv'
    BY Zenon
<1>1. TypeOK /\ PrefixInv /\ WritesInv /\ EventsInv /\ NothingOlder
    BY Zenon DEF HandlesInv, PrefixInv
<1>2. PrefixInv'
    BY <1>1, CacheSteps, StepFresh, Zenon
<1>3. WritesInv'
    BY <1>1, StepWrites, Zenon
<1>4. EventsInv'
    BY <1>1, StepEvents, Zenon
<1>5. NothingOlder'
    BY <1>1, StepOlder, Zenon
<1>6. QED
    BY <1>2, <1>3, <1>4, <1>5, Zenon DEF HandlesInv

\* The invariant holds throughout, whatever the scheduler guarantees.
THEOREM HandlesInvariant == HandlesSpec => []HandlesInv
BY InitHandles, StepHandles, PTL DEF HandlesSpec, HandlesSafety

\* For any number of handles, joiners and calls, under any interleaving and any
\* failure: a joiner whose enable_joiner returned Ok stays admitted until a
\* later write replaces the data, unless an abandoned write arrives late.
THEOREM NoJoinerLost == HandlesSpec => []JoinersKept
<1>1. HandlesInv => JoinersKept
    <2> SUFFICES ASSUME HandlesInv, ~strays, NEW j \in owed PROVE Admits(steering, j)
        BY SMTT(30) DEF JoinersKept
    <2>1. Keeps(steering)
        BY Zenon DEF HandlesInv, WritesInv, Careful
    <2>2. QED
        BY <2>1 DEF Keeps, Admits, FullLength
<1>2. QED
    BY <1>1, HandlesInvariant, PTL

\* The cache stays fresh when its callers are the typed operations.
THEOREM HandlesStayFresh == HandlesSpec => []CacheFresh
<1>1. HandlesInv => CacheFresh
    BY Zenon DEF HandlesInv, PrefixInv
<1>2. QED
    BY <1>1, HandlesInvariant, PTL

\* For every capacity of the channel and every number of events: what a
\* subscriber was not given, it was told it missed.
THEOREM NoEventUnaccounted == HandlesSpec => []EventsAccounted
<1>1. HandlesInv => EventsAccounted
    BY Zenon DEF HandlesInv, EventsInv
<1>2. QED
    BY <1>1, HandlesInvariant, PTL

\* For any number of callers and changes: a subscriber that has been told of a
\* change never finds an older prefix in the cache.
THEOREM HeardOfIsFresh == HandlesSpec => []HeardOfFreshPrefix
<1>1. HandlesInv => HeardOfFreshPrefix
    BY Zenon DEF HandlesInv, EventsInv, NothingOlder, Announced, HeardOfFreshPrefix
<1>2. QED
    BY <1>1, HandlesInvariant, PTL
=============================================================================
