--------------------------- MODULE TopologyProofs ---------------------------
(***************************************************************************)
(* What a walk makes of answers, for every mesh and all sizes of TLVs: the *)
(* batches a request is split into, the records that answers become and    *)
(* the graph drawn from records.                                           *)
(***************************************************************************)
EXTENDS Collector, TLAPS, FiniteSetTheorems, WellFoundedInduction

-----------------------------------------------------------------------------
(* What a walk knows *)

\* The TLVs that a walk asks for.
Known == Range(RouterTlvs)

WalkType ==
    /\ phase \in {"discover", "routers", "children", "node", "parent", "done", "failed"}
    /\ todo \in Seq(Nat)
    /\ primes \in 0..PrimeAttempts
    /\ stack \in Seq(Seq(Known))
    /\ status \in {"active", "closed"}
    /\ faults \in [lost : Nat, cut : Nat, ended : Nat]

Sound == faults.cut = 0 /\ status = "active"

Tlvs == Range(TlvsFor(phase, target))
AllIn(batches) == UNION {Range(batches[i]) : i \in 1..Len(batches)}

\* What the device has of what it is asked for, and what of it is lost.
Obtainable == {t \in Tlvs : t \in DOMAIN Mesh[Device] /\ Size[t] <= Cap}
Missed == Obtainable \ (DOMAIN merged \cup AllIn(stack))

\* An answer tells what the device has.
Of(data, device) == \A t \in DOMAIN data : t \in DOMAIN Mesh[device] /\ data[t] = Mesh[device][t]

\* The device that is asked: an answered primer shows that it is reachable, and
\* what it has answered is what it has.
DeviceInv ==
    Walking =>
        /\ primes > 0 => merged = Empty /\ stack = <<>>
        /\ primes = 0 => Device \in Reachable
        /\ Of(merged, Device)
        /\ DOMAIN merged \subseteq {"mac"} \cup Tlvs
        /\ AllIn(stack) \subseteq Tlvs
        /\ (primes = 0 /\ "mac" \in DOMAIN Mesh[Device]) => "mac" \in DOMAIN merged

\* Its losses.
LossInv ==
    (Walking /\ Sound) =>
        /\ primes = 0 => Cardinality(Missed) <= faults.lost
        /\ (primes > 0 /\ Device \in Reachable) => PrimeAttempts <= primes + faults.lost

\* A node record of r.
IsNode(n, r) ==
    /\ n = [rloc |-> n.rloc, role |-> n.role, discovery |-> n.discovery, parent |-> n.parent,
            tlvs |-> n.tlvs, routes |-> n.routes, children |-> n.children]
    /\ n.rloc = r
    /\ n.discovery = "direct" => r \in Reachable

Told(n, lost) == n.discovery = "direct" => Cardinality(Wanted(n) \ n.tlvs) <= lost
Heard(n, r, lost) == (r \in Reachable /\ lost < PrimeAttempts) => n.discovery = "direct"

\* A router's record is what it answered, and a child's says who listed it.
RouterRecord(r, ns, ans) ==
    /\ r \in RoutersOfMesh
    /\ ns[r].role \in {"leader", "router"}
    /\ ns[r] = IF r \in DOMAIN ans THEN FromDiag(r, ns[r].role, ans[r])
               ELSE Skeleton(r, ns[r].role, "unreachable")
ChildRecord(c, ns, ans) ==
    /\ c \in Nat
    /\ ns[c].role = "child" /\ ns[c].parent = ParentRloc(c)
    /\ ns[c].routes = {} /\ ns[c].children = {}
    /\ ParentRloc(c) \in DOMAIN ans
    /\ "child_table" \in DOMAIN ans[ParentRloc(c)]
    /\ ChildId(c) \in ans[ParentRloc(c)]["child_table"]

Recorded(ns, ans) ==
    /\ \A r \in DOMAIN ans : r \in DOMAIN ns \cap Reachable /\ ~IsChild(r) /\ Of(ans[r], r)
    /\ \A r \in DOMAIN ns : IF IsChild(r) THEN ChildRecord(r, ns, ans) ELSE RouterRecord(r, ns, ans)

-----------------------------------------------------------------------------
(* Numbers *)

\* Every non-empty set of naturals has a least element.
LEMMA LeastElement ==
    ASSUME NEW S, S \subseteq Nat, S # {}
    PROVE  \E n \in S : \A m \in S : n <= m
<1>1. PICK n \in S : \A m \in S : ~(<<m, n>> \in OpToRel(<, Nat))
    BY NatLessThanWellFounded, WFMin, Zenon
<1>2. OpToRel(<, Nat) = {ss \in Nat \X Nat : ss[1] < ss[2]}
    BY Zenon DEF OpToRel
<1>3. \A m \in S : ~(<<m, n>> \in {ss \in Nat \X Nat : ss[1] < ss[2]})
    BY <1>1, <1>2, Zenon
<1>4. ASSUME NEW m \in S PROVE n <= m
    <2>1. m \in Nat /\ n \in Nat /\ <<m, n>> \in Nat \X Nat
        BY Zenon
    <2>2. ~(<<m, n>>[1] < <<m, n>>[2])
        BY <1>3, <2>1, Zenon
    <2>3. QED
        BY <2>1, <2>2
<1>5. QED
    BY <1>4, Zenon

\* Induction, for a property given as the set of the numbers that have it.
LEMMA Induction ==
    ASSUME NEW S, 0 \in S, \A n \in Nat : n \in S => n + 1 \in S
    PROVE  Nat \subseteq S
<1> DEFINE missing == Nat \ S
<1> SUFFICES ASSUME missing # {} PROVE FALSE
    BY Zenon
<1>1. PICK n \in missing : \A m \in missing : n <= m
    BY LeastElement, Zenon
<1>2. n - 1 \in Nat /\ n - 1 \in S
    BY <1>1
<1>3. QED
    BY <1>1, <1>2

\* A child's RLOC16 is its parent's with its ID in the lower bits.
LEMMA ChildOfParent ==
    ASSUME NEW r \in Nat, ~IsChild(r), NEW id \in Nat, 0 < id, id < 1024
    PROVE  IsChild(r + id) /\ ParentRloc(r + id) = r /\ ChildId(r + id) = id
BY DEF IsChild, ChildId, ParentRloc

\* A router's RLOC16 and its ID determine each other.
LEMMA RlocOfRouter ==
    ASSUME NEW r \in Nat, ~IsChild(r)
    PROVE  RouterRloc(RouterId(r)) = r
BY DEF IsChild, ChildId, RouterRloc, RouterId

-----------------------------------------------------------------------------
(* A set in ascending order *)

Increasing(q) == \A i, j \in DOMAIN q : i < j => q[i] < q[j]

\* The least element goes before the others in order.
LEMMA PrependLeast ==
    ASSUME NEW n \in Nat, NEW T, T \subseteq Nat, NEW x \in T, \A y \in T : x <= y,
           NEW p \in [1..n -> T \ {x}], Increasing(p)
    PROVE  \E q \in [1..(n + 1) -> T] : Increasing(q)
<1> DEFINE q == [i \in 1..(n + 1) |-> IF i = 1 THEN x ELSE p[i - 1]]
<1>1. \A i \in 1..(n + 1) : i # 1 => i - 1 \in 1..n
    OBVIOUS
<1>2. ASSUME NEW i \in 1..n PROVE p[i] \in T /\ x < p[i]
    <2>1. p[i] \in T \ {x}
        BY Zenon
    <2>2. p[i] \in T /\ p[i] # x /\ p[i] \in Nat /\ x \in Nat /\ x <= p[i]
        BY <2>1, Zenon
    <2>3. QED
        BY <2>2
<1>3. q \in [1..(n + 1) -> T]
    BY <1>1, <1>2, Zenon
<1>4. ASSUME NEW i \in 1..(n + 1), NEW j \in 1..(n + 1), i < j PROVE q[i] < q[j]
    <2>1. j # 1 /\ j - 1 \in 1..n /\ q[j] = p[j - 1]
        BY <1>1, <1>4
    <2>2. CASE i = 1
        BY <1>2, <2>1, <2>2, Zenon
    <2>3. CASE i # 1
        <3>1. i - 1 \in 1..n /\ q[i] = p[i - 1] /\ i - 1 < j - 1
            BY <1>1, <1>4, <2>3
        <3>2. QED
            BY <2>1, <3>1, Zenon DEF Increasing
    <2>4. QED
        BY <2>2, <2>3, Zenon
<1>5. QED
    BY <1>3, <1>4, Zenon DEF Increasing

\* Every finite set of naturals can be put in order.
LEMMA OrderExists ==
    ASSUME NEW S, S \subseteq Nat, IsFiniteSet(S)
    PROVE  \E q \in [1..Cardinality(S) -> S] : Increasing(q)
<1> DEFINE Has(T) == \E q \in [1..Cardinality(T) -> T] : Increasing(q)
           G == {n \in Nat : \A T \in SUBSET Nat : IsFiniteSet(T) /\ Cardinality(T) = n => Has(T)}
<1>1. 0 \in G
    <2> SUFFICES ASSUME NEW T \in SUBSET Nat, Cardinality(T) = 0 PROVE Has(T)
        BY Zenon
    <2>1. [i \in 1..0 |-> 0] \in [1..0 -> T] /\ Increasing([i \in 1..0 |-> 0])
        BY DEF Increasing
    <2>2. QED
        BY <2>1, Zenon
<1>2. ASSUME NEW n \in Nat, n \in G PROVE n + 1 \in G
    <2> SUFFICES ASSUME NEW T \in SUBSET Nat, IsFiniteSet(T), Cardinality(T) = n + 1 PROVE Has(T)
        OBVIOUS
    <2>1. T # {}
        BY FS_EmptySet
    <2>2. PICK x \in T : \A y \in T : x <= y
        BY <2>1, LeastElement, Zenon
    <2>3. IsFiniteSet(T \ {x}) /\ Cardinality(T \ {x}) = n /\ T \ {x} \in SUBSET Nat
        BY FS_RemoveElement
    <2>4. PICK p \in [1..n -> T \ {x}] : Increasing(p)
        BY <1>2, <2>3, Zenon
    <2>5. QED
        BY <2>2, <2>4, PrependLeast, Zenon
<1>3. Nat \subseteq G
    <2> HIDE DEF G
    <2>1. QED
        BY <1>1, <1>2, Induction, Zenon
<1>4. Cardinality(S) \in G
    BY <1>3, FS_CardinalityType, Zenon
<1>5. QED
    BY <1>4, Zenon

\* Ascending loses nothing and adds nothing.
LEMMA AscendingOf ==
    ASSUME NEW S, S \subseteq Nat, IsFiniteSet(S)
    PROVE  /\ Ascending(S) \in Seq(S)
           /\ Range(Ascending(S)) = S
           /\ IsInjective(Ascending(S))
<1> DEFINE q == Ascending(S)
           n == Cardinality(S)
<1>1. q \in [1..n -> S] /\ Increasing(q) /\ n \in Nat
    BY OrderExists, FS_CardinalityType, Zenon DEF Ascending, Increasing
<1>0. Cardinality(1..n) = Cardinality(S) /\ IsFiniteSet(1..n)
    BY <1>1, FS_Interval
<1> HIDE DEF q, n
<1>2. q \in Injection(1..n, S)
    <2>1. ASSUME NEW i \in 1..n, NEW j \in 1..n, q[i] = q[j] PROVE i = j
        <3>1. q[i] \in S /\ q[j] \in S /\ i \in Nat /\ j \in Nat
            BY <1>1
        <3>2. DOMAIN q = 1..n
            BY <1>1, Zenon
        <3>3. (i < j => q[i] < q[j]) /\ (j < i => q[j] < q[i])
            BY <1>1, <3>2, Zenon DEF Increasing
        <3>4. q[i] \in Nat /\ q[j] \in Nat
            BY <3>1, Zenon
        <3>5. ~(q[i] < q[j]) /\ ~(q[j] < q[i])
            BY <2>1, <3>4
        <3>6. QED
            BY <3>1, <3>3, <3>5
    <2>2. QED
        BY <1>1, <2>1, Zenon DEF Injection, IsInjective
<1>4. q \in Surjection(1..n, S)
    BY <1>0, <1>2, FS_Injection, Zenon
<1>5. Range(q) = S
    BY <1>1, <1>4, Zenon DEF Range, Surjection
<1>6. q \in Seq(S)
    BY <1>1
<1>7. IsInjective(q)
    BY <1>2, Zenon DEF Injection
<1>8. QED
    BY <1>5, <1>6, <1>7, Zenon DEF q

-----------------------------------------------------------------------------
(* Batches *)

\* A response to a single TLV fits if that TLV does.
LEMMA FitsOne ==
    ASSUME NEW t, Size[t] \in Nat, NEW T, T \subseteq {t}
    PROVE  Fits(T) <=> T = {} \/ Size[t] <= Cap
<1> DEFINE Body(s, f) == IF s = {} THEN 0 ELSE Size[CHOOSE x \in s : TRUE] + f[s \ {CHOOSE x \in s : TRUE}]
           Is(f) == f = [s \in SUBSET T |-> Body(s, f)]
           f0 == [s \in SUBSET T |-> IF s = {} THEN 0 ELSE Size[t]]
           f1 == CHOOSE f : Is(f)
<1>1. Is(f0)
    <2>1. ASSUME NEW s \in SUBSET T PROVE f0[s] = Body(s, f0)
        <3>1. CASE s = {}
            BY <3>1, Zenon
        <3>2. CASE s # {}
            <4>1. s = {t} /\ (CHOOSE x \in s : TRUE) = t
                BY <3>2, Zenon
            <4>2. s \ {t} = {} /\ f0[{}] = 0
                BY <4>1, Zenon
            <4>3. QED
                BY <3>2, <4>1, <4>2
        <3>3. QED
            BY <3>1, <3>2, Zenon
    <2>2. QED
        BY <2>1, Zenon
<1>2. Is(f1)
    BY <1>1, Zenon
<1>3. MapThenSumSet(LAMBDA x : Size[x], T) = f1[T]
    BY Zenon DEF MapThenSumSet, MapThenFoldSet
<1> HIDE DEF f1
<1>4. f1[T] = Body(T, f1) /\ f1[{}] = Body({}, f1)
    BY <1>2, Zenon
<1>5. CASE T = {}
    BY <1>3, <1>4, <1>5, CollectorAssumption DEF Fits
<1>6. CASE T # {}
    <2>1. T = {t} /\ (CHOOSE x \in T : TRUE) = t /\ T \ {t} = {}
        BY <1>6, Zenon
    <2>2. f1[T] = Size[t]
        BY <1>4, <1>6, <2>1
    <2>3. QED
        BY <1>3, <1>6, <2>2, Zenon DEF Fits
<1>7. QED
    BY <1>5, <1>6, Zenon

\* What is in two stacks, one on the other.
LEMMA AllInConcat ==
    ASSUME NEW S, NEW a \in Seq(S), NEW b \in Seq(S)
    PROVE  a \o b \in Seq(S) /\ AllIn(a \o b) = AllIn(a) \cup AllIn(b)
<1>1. /\ a \o b \in Seq(S) /\ Len(a \o b) = Len(a) + Len(b)
      /\ \A i \in 1..Len(a) : (a \o b)[i] = a[i] /\ i \in 1..Len(a \o b)
      /\ \A i \in 1..Len(b) : (a \o b)[Len(a) + i] = b[i] /\ Len(a) + i \in 1..Len(a \o b)
      /\ \A i \in 1..Len(a \o b) : i \in 1..Len(a) \/ \E j \in 1..Len(b) : i = Len(a) + j
    <2>1. /\ a \o b \in Seq(S) /\ Len(a \o b) = Len(a) + Len(b)
          /\ Len(a) \in Nat /\ Len(b) \in Nat
        OBVIOUS
    <2>2. \A i \in 1..(Len(a) + Len(b)) : (a \o b)[i] = IF i <= Len(a) THEN a[i] ELSE b[i - Len(a)]
        OBVIOUS
    <2>3. \A i \in 1..Len(a \o b) : ~(i \in 1..Len(a)) => i - Len(a) \in 1..Len(b) /\ i = Len(a) + (i - Len(a))
        BY <2>1
    <2>4. QED
        BY <2>1, <2>2, <2>3
<1> DEFINE c == a \o b
<1>2. \A i \in 1..Len(a) : Range(a[i]) \subseteq AllIn(c)
    BY <1>1, Zenon DEF AllIn
<1>3. \A i \in 1..Len(b) : Range(b[i]) \subseteq AllIn(c)
    BY <1>1, Zenon DEF AllIn
<1>4. ASSUME NEW i \in 1..Len(c) PROVE Range(c[i]) \subseteq AllIn(a) \cup AllIn(b)
    <2>1. CASE i \in 1..Len(a)
        BY <1>1, <2>1, Zenon DEF AllIn
    <2>2. CASE \E j \in 1..Len(b) : i = Len(a) + j
        BY <1>1, <2>2, Zenon DEF AllIn
    <2>3. QED
        BY <1>1, <2>1, <2>2, Zenon
<1> HIDE DEF c
<1>5. AllIn(c) = AllIn(a) \cup AllIn(b)
    BY <1>2, <1>3, <1>4, Zenon DEF AllIn
<1>6. QED
    BY <1>1, <1>5, Zenon DEF c

\* The next batch and the rest.
LEMMA AllInTail ==
    ASSUME NEW S, NEW q \in Seq(S), q # <<>>
    PROVE  Head(q) \in S /\ Tail(q) \in Seq(S) /\ AllIn(q) = Range(Head(q)) \cup AllIn(Tail(q))
<1>1. /\ Head(q) \in S /\ Tail(q) \in Seq(S) /\ Head(q) = q[1] /\ Len(Tail(q)) = Len(q) - 1
      /\ Len(q) \in Nat /\ Len(q) >= 1
      /\ \A i \in 1..Len(Tail(q)) : Tail(q)[i] = q[i + 1]
    OBVIOUS
<1>2. \A i \in 1..Len(q) : i = 1 \/ (i - 1 \in 1..Len(Tail(q)) /\ Tail(q)[i - 1] = q[i])
    BY <1>1
<1>3. \A i \in 1..Len(Tail(q)) : i + 1 \in 1..Len(q)
    BY <1>1
<1> DEFINE h == Head(q)
           r == Tail(q)
<1>4. 1 \in 1..Len(q)
    BY <1>1
<1> HIDE DEF h, r
<1>5. AllIn(q) = Range(h) \cup AllIn(r)
    BY <1>1, <1>2, <1>3, <1>4, Zenon DEF AllIn, h, r
<1>6. QED
    BY <1>1, <1>5, Zenon DEF h, r

\* Slices of a sequence have some of its elements.
LEMMA SliceOf ==
    ASSUME NEW S, NEW q \in Seq(S), NEW m \in Nat \ {0}, NEW n \in Nat, n <= Len(q)
    PROVE  /\ SubSeq(q, m, n) \in Seq(S)
           /\ Range(SubSeq(q, m, n)) = {q[i] : i \in m..n}
           /\ Len(SubSeq(q, m, n)) = IF m <= n THEN n - m + 1 ELSE 0
<1> DEFINE p == SubSeq(q, m, n)
<1>1. /\ Len(q) \in Nat /\ p \in Seq(S) /\ Len(p) = IF m <= n THEN n - m + 1 ELSE 0
      /\ \A i \in 1..Len(p) : p[i] = q[m + i - 1]
    OBVIOUS
<1> HIDE DEF p
<1>2. /\ \A i \in 1..Len(p) : m + i - 1 \in m..n
      /\ \A i \in m..n : i - m + 1 \in 1..Len(p) /\ m + (i - m + 1) - 1 = i
    BY <1>1
<1>3. DOMAIN p = 1..Len(p)
    BY <1>1
<1>4. \A i \in m..n : q[i] = p[i - m + 1]
    BY <1>1, <1>2, Zenon
<1>5. Range(p) = {q[i] : i \in m..n}
    BY <1>1, <1>2, <1>3, <1>4 DEF Range
<1>6. QED
    BY <1>1, <1>5, Zenon DEF p

\* The two halves of a batch have all of it.
LEMMA HalvesOf ==
    ASSUME NEW S, NEW batch \in Seq(S), Len(batch) > 1
    PROVE  /\ Halves(batch) \in Seq(Seq(S))
           /\ AllIn(Halves(batch)) = Range(batch)
           /\ Range(batch) = {batch[i] : i \in 1..Len(batch)}
<1> DEFINE n == Len(batch)
           mid == n \div 2
           a == SubSeq(batch, mid + 1, n)
           b == SubSeq(batch, 1, mid)
<1>1. n \in Nat /\ mid \in Nat /\ mid <= n /\ mid + 1 \in Nat \ {0} /\ DOMAIN batch = 1..n
    OBVIOUS
<1> HIDE DEF n, mid
<1>2. /\ a \in Seq(S) /\ Range(a) = {batch[i] : i \in (mid + 1)..n}
      /\ b \in Seq(S) /\ Range(b) = {batch[i] : i \in 1..mid}
    BY <1>1, SliceOf DEF n
<1>3. Halves(batch) = <<a, b>>
    BY Zenon DEF Halves, n, mid
<1> HIDE DEF a, b
<1>4. <<a, b>> \in Seq(Seq(S)) /\ Len(<<a, b>>) = 2 /\ <<a, b>>[1] = a /\ <<a, b>>[2] = b
    BY <1>2
<1>5. 1..2 = {1, 2}
    OBVIOUS
<1>6. AllIn(<<a, b>>) = Range(a) \cup Range(b)
    BY <1>4, <1>5, Zenon DEF AllIn
<1>7. \A i \in 1..n : i \in (mid + 1)..n \/ i \in 1..mid
    BY <1>1
<1>8. \A i : i \in (mid + 1)..n \/ i \in 1..mid => i \in 1..n
    BY <1>1
<1>9. Range(batch) = {batch[i] : i \in 1..n}
    BY <1>1, Zenon DEF Range
<1>10. Range(a) \cup Range(b) = {batch[i] : i \in 1..n}
    BY <1>2, <1>7, <1>8, Zenon
<1>11. QED
    BY <1>3, <1>4, <1>6, <1>9, <1>10, Zenon DEF n

\* A product is below another one only if its factor is.
LEMMA FactorBelow ==
    ASSUME NEW p \in Nat, NEW m \in Nat, NEW c \in Nat \ {0}, p * c < m * c
    PROVE  p < m
<1> SUFFICES ASSUME p >= m PROVE FALSE
    OBVIOUS
<1>1. PICK d \in Nat : p = m + d
    <2>1. p - m \in Nat /\ p = m + (p - m)
        OBVIOUS
    <2>2. QED
        BY <2>1, Zenon
<1>2. p * c = m * c + d * c
    BY <1>1
<1>3. d * c \in Nat /\ m * c \in Nat
    OBVIOUS
<1>4. QED
    BY <1>2, <1>3

\* The chunks have all that there was to ask.
LEMMA ChunksOf ==
    ASSUME NEW S, NEW tlvs \in Seq(S)
    PROVE  Chunks(tlvs) \in Seq(Seq(S)) /\ AllIn(Chunks(tlvs)) = Range(tlvs)
<1> DEFINE n == Len(tlvs)
           C == ChunkSize
           m == (n + C - 1) \div C
           hi(i) == Min({i * C, n})
           part(i) == SubSeq(tlvs, (i - 1) * C + 1, hi(i))
<1>1. n \in Nat /\ C \in Nat \ {0} /\ DOMAIN tlvs = 1..n
    BY CollectorAssumption
<1>2. m \in Nat /\ n + C - 1 < m * C + C
    BY <1>1
<1>3. Chunks(tlvs) = [i \in 1..m |-> part(i)]
    BY Zenon DEF Chunks
<1>4. ASSUME NEW i \in 1..m
      PROVE  /\ (i - 1) * C + 1 \in Nat \ {0} /\ hi(i) \in Nat /\ hi(i) <= n /\ hi(i) <= i * C
             /\ hi(i) = n \/ hi(i) = i * C
    <2>1. i * C \in Nat /\ (i - 1) * C \in Nat
        BY <1>1, <1>2
    <2>2. \E x \in {i * C, n} : \A y \in {i * C, n} : x <= y
        BY <1>1, <2>1
    <2>3. hi(i) \in {i * C, n} /\ \A y \in {i * C, n} : hi(i) <= y
        BY <2>2, Zenon DEF Min
    <2> HIDE DEF hi
    <2>4. QED
        BY <1>1, <2>1, <2>3
<1> HIDE DEF hi, m, C
<1>5. ASSUME NEW i \in 1..m
      PROVE  part(i) \in Seq(S) /\ Range(part(i)) = {tlvs[k] : k \in ((i - 1) * C + 1)..hi(i)}
    BY <1>1, <1>4, SliceOf
<1>6. ASSUME NEW k \in 1..n PROVE \E i \in 1..m : k \in ((i - 1) * C + 1)..hi(i)
    <2> DEFINE p == (k - 1) \div C
    <2>1. p \in Nat /\ p * C <= k - 1 /\ k - 1 < p * C + C
        BY <1>1
    <2> HIDE DEF p
    <2>2. p * C < m * C
        <3>1. p * C \in Nat /\ m * C \in Nat
            BY <1>1, <1>2, <2>1
        <3>2. QED
            BY <1>1, <1>2, <2>1, <3>1 DEF m, C
    <2>3. p < m
        BY <1>1, <1>2, <2>1, <2>2, FactorBelow, Zenon
    <2>4. p + 1 \in 1..m /\ (p + 1) - 1 = p
        BY <1>2, <2>1, <2>3
    <2>5. (p + 1) * C = p * C + C /\ p * C \in Nat
        BY <1>1, <2>1
    <2>6. p * C + 1 <= k /\ k <= (p + 1) * C
        BY <1>1, <2>1, <2>5
    <2>7. k <= hi(p + 1) /\ hi(p + 1) \in Nat
        BY <1>4, <2>4, <2>6
    <2>8. k \in ((p + 1 - 1) * C + 1)..hi(p + 1)
        BY <2>4, <2>5, <2>6, <2>7
    <2>9. QED
        BY <2>4, <2>8
<1>7. ASSUME NEW i \in 1..m, NEW k \in ((i - 1) * C + 1)..hi(i) PROVE k \in 1..n
    <2>1. (i - 1) * C + 1 \in Nat \ {0} /\ hi(i) \in Nat /\ hi(i) <= n
        BY <1>4, Zenon
    <2>2. QED
        BY <1>1, <2>1
<1> HIDE DEF part
<1> DEFINE f == [i \in 1..m |-> part(i)]
<1>8. f \in [1..m -> Seq(S)] /\ \A i \in 1..m : f[i] = part(i)
    BY <1>5, Zenon
<1> HIDE DEF f
<1>9. f \in Seq(Seq(S)) /\ AllIn(f) = UNION {Range(part(i)) : i \in 1..m}
    <2>1. f \in Seq(Seq(S)) /\ Len(f) = m
        BY <1>2, <1>8
    <2>2. QED
        BY <1>8, <2>1, Zenon DEF AllIn
<1>10. Range(tlvs) = {tlvs[k] : k \in 1..n}
    BY <1>1, Zenon DEF Range
<1>11. UNION {Range(part(i)) : i \in 1..m} = {tlvs[k] : k \in 1..n}
    <2>1. ASSUME NEW i \in 1..m PROVE Range(part(i)) \subseteq {tlvs[k] : k \in 1..n}
        BY <1>5, <1>7, Zenon
    <2>2. ASSUME NEW k \in 1..n PROVE \E i \in 1..m : tlvs[k] \in Range(part(i))
        <3>1. PICK i \in 1..m : k \in ((i - 1) * C + 1)..hi(i)
            BY <1>6, Zenon
        <3>2. tlvs[k] \in Range(part(i))
            BY <1>5, <3>1, Zenon
        <3>3. QED
            BY <3>2, Zenon
    <2>3. QED
        BY <2>1, <2>2, Zenon
<1>12. QED
    BY <1>3, <1>9, <1>10, <1>11, Zenon DEF f

-----------------------------------------------------------------------------
(* Node records *)

\* A direct answer laid over a node record.
LEMMA MergedRecord ==
    ASSUME NEW n, NEW r \in Reachable, IsNode(n, r), NEW data
    PROVE  LET m == MergeDiag(n, data)
           IN  /\ IsNode(m, r) /\ m.discovery = "direct" /\ m.role = n.role /\ m.parent = n.parent
               /\ m.tlvs = n.tlvs \cup (DOMAIN data \ {"mac", "child_ipv6"})
               /\ "route64" \notin DOMAIN data => m.routes = n.routes
               /\ "child_table" \notin DOMAIN data => m.children = n.children
<1> DEFINE rs == IF "route64" \in DOMAIN data
                 THEN {[router |-> e.id, relation |-> Relation(n, e), in |-> e.in, out |-> e.out] :
                            e \in data["route64"]}
                 ELSE n.routes
           cs == IF "child_table" \in DOMAIN data
                 THEN {RouterRloc(RouterId(n.rloc)) + id : id \in data["child_table"]}
                 ELSE n.children
           ts == n.tlvs \cup (DOMAIN data \ {"mac", "child_ipv6"})
<1>1. MergeDiag(n, data) = [n EXCEPT !.discovery = "direct", !.tlvs = ts, !.routes = rs, !.children = cs]
    BY Zenon DEF MergeDiag
<1>2. ("route64" \notin DOMAIN data => rs = n.routes) /\ ("child_table" \notin DOMAIN data => cs = n.children)
    BY Zenon
<1> HIDE DEF rs, cs
<1>3. MergeDiag(n, data) =
        [rloc |-> n.rloc, role |-> n.role, discovery |-> "direct", parent |-> n.parent,
         tlvs |-> ts, routes |-> rs, children |-> cs]
    BY <1>1, Zenon DEF IsNode
<1>4. QED
    BY <1>2, <1>3 DEF IsNode

\* The records without an answer.
LEMMA SkeletonRecord ==
    ASSUME NEW r, NEW role, NEW discovery, discovery = "direct" => r \in Reachable
    PROVE  LET n == Skeleton(r, role, discovery)
           IN  /\ IsNode(n, r) /\ n.discovery = discovery /\ n.role = role /\ n.parent = None
               /\ n.tlvs = {} /\ n.routes = {} /\ n.children = {}
BY Zenon DEF Skeleton, IsNode

\* The record of a device that answered.
LEMMA DirectRecord ==
    ASSUME NEW r \in Reachable, NEW role, NEW data
    PROVE  LET n == FromDiag(r, role, data)
           IN  /\ IsNode(n, r) /\ n.discovery = "direct" /\ n.role = role /\ n.parent = None
               /\ n.tlvs = DOMAIN data \ {"mac", "child_ipv6"}
               /\ "route64" \notin DOMAIN data => n.routes = {}
               /\ "child_table" \notin DOMAIN data => n.children = {}
<1> DEFINE s == Skeleton(r, role, "direct")
<1>1. /\ IsNode(s, r) /\ s.role = role /\ s.parent = None
      /\ s.tlvs = {} /\ s.routes = {} /\ s.children = {}
    BY SkeletonRecord
<1>2. FromDiag(r, role, data) = MergeDiag(s, data)
    BY Zenon DEF FromDiag
<1> HIDE DEF s
<1> DEFINE m == MergeDiag(s, data)
<1>3. /\ IsNode(m, r) /\ m.discovery = "direct" /\ m.role = s.role /\ m.parent = s.parent
      /\ m.tlvs = s.tlvs \cup (DOMAIN data \ {"mac", "child_ipv6"})
      /\ "route64" \notin DOMAIN data => m.routes = s.routes
      /\ "child_table" \notin DOMAIN data => m.children = s.children
    BY <1>1, MergedRecord, Zenon
<1> HIDE DEF m
<1>4. m.tlvs = DOMAIN data \ {"mac", "child_ipv6"}
    BY <1>1, <1>3, Zenon
<1>5. QED
    BY <1>1, <1>2, <1>3, <1>4, Zenon DEF m

\* The records that a parent's child table gives.
LEMMA ListedRecord ==
    ASSUME NEW p, NEW data, NEW c \in DOMAIN ParentChildren(p, data)
    PROVE  /\ "child_table" \in DOMAIN data /\ \E id \in data["child_table"] : c = p + id
           /\ LET n == ParentChildren(p, data)[c]
              IN  /\ IsNode(n, c) /\ n.discovery = "parent-table" /\ n.role = "child" /\ n.parent = p
                  /\ n.routes = {} /\ n.children = {}
<1>1. "child_table" \in DOMAIN data
    BY Zenon DEF ParentChildren, Empty
<1>2. DOMAIN ParentChildren(p, data) = {p + id : id \in data["child_table"]}
    BY <1>1, Zenon DEF ParentChildren
<1> DEFINE s == Skeleton(c, "child", "parent-table")
           ts == {"mode", "timeout"} \cup
                    {t \in {"ipv6"} : "child_ipv6" \in DOMAIN data /\ c \in data["child_ipv6"]}
<1>3. ParentChildren(p, data)[c] = [s EXCEPT !.parent = p, !.tlvs = ts]
    BY <1>1, <1>2, Zenon DEF ParentChildren
<1> HIDE DEF ts
<1>4. ParentChildren(p, data)[c] =
        [rloc |-> c, role |-> "child", discovery |-> "parent-table", parent |-> p,
         tlvs |-> ts, routes |-> {}, children |-> {}]
    BY <1>3, Zenon DEF Skeleton
<1>5. QED
    BY <1>1, <1>2, <1>4 DEF IsNode

-----------------------------------------------------------------------------
(* Children and the order of devices *)

\* Answers of routers, with child IDs in their child tables.
RouterAnswers(ans) ==
    \A r \in DOMAIN ans :
        /\ r \in Nat /\ r < 65536 /\ ~IsChild(r)
        /\ "child_table" \in DOMAIN ans[r] =>
                \A id \in ans[r]["child_table"] : id \in Nat /\ 0 < id /\ id < 1024

\* A child is listed by its parent and by no one else.
LEMMA ListedByParent ==
    ASSUME NEW ans, RouterAnswers(ans), NEW c, NEW r \in DOMAIN ans, c \in DOMAIN ParentChildren(r, ans[r])
    PROVE  /\ IsChild(c) /\ c \in Nat /\ c <= 66558 /\ ParentRloc(c) = r
           /\ "child_table" \in DOMAIN ans[r] /\ ChildId(c) \in ans[r]["child_table"]
<1>1. PICK id \in ans[r]["child_table"] : c = r + id
    BY ListedRecord
<1>2. "child_table" \in DOMAIN ans[r]
    BY ListedRecord, Zenon
<1>3. id \in Nat /\ 0 < id /\ id < 1024 /\ r \in Nat /\ r < 65536 /\ ~IsChild(r)
    BY <1>2 DEF RouterAnswers
<1>4. IsChild(c) /\ ParentRloc(c) = r /\ ChildId(c) = id
    BY <1>1, <1>3, ChildOfParent
<1>5. c \in Nat /\ c <= 66558
    BY <1>1, <1>3
<1>6. QED
    BY <1>2, <1>4, <1>5

\* The records of collect_children.
LEMMA ChildrenOf ==
    ASSUME NEW ans, RouterAnswers(ans)
    PROVE  /\ DOMAIN Children(ans) = UNION {DOMAIN ParentChildren(r, ans[r]) : r \in DOMAIN ans}
           /\ DOMAIN Children(ans) \subseteq Nat /\ IsFiniteSet(DOMAIN Children(ans))
           /\ \A c \in DOMAIN Children(ans) :
                /\ IsChild(c) /\ IsNode(Children(ans)[c], c)
                /\ Children(ans)[c].discovery = "parent-table"
                /\ ChildRecord(c, Children(ans), ans)
<1> DEFINE D == UNION {DOMAIN ParentChildren(r, ans[r]) : r \in DOMAIN ans}
           lists(c) == {r \in DOMAIN ans : c \in DOMAIN ParentChildren(r, ans[r])}
           K == Children(ans)
<1>1. K = [c \in D |-> ParentChildren(Max(lists(c)), ans[Max(lists(c))])[c]]
    BY DEF Children
<1>2. ASSUME NEW c \in D
      PROVE  /\ IsChild(c) /\ c \in Nat /\ c <= 66558 /\ IsNode(K[c], c)
             /\ K[c].discovery = "parent-table" /\ ChildRecord(c, K, ans)
    <2>1. PICK r \in DOMAIN ans : c \in DOMAIN ParentChildren(r, ans[r])
        OBVIOUS
    <2>2. /\ IsChild(c) /\ c \in Nat /\ c <= 66558 /\ ParentRloc(c) = r
          /\ "child_table" \in DOMAIN ans[r] /\ ChildId(c) \in ans[r]["child_table"]
        BY <2>1, ListedByParent
    <2>3. lists(c) = {r}
        <3>1. ASSUME NEW o \in lists(c) PROVE o = r
            BY <2>2, <3>1, ListedByParent
        <3>2. r \in lists(c)
            BY <2>1, Zenon
        <3> HIDE DEF lists
        <3>3. QED
            BY <3>1, <3>2
    <2>4. Max({r}) = r
        <3>1. r \in Nat
            BY DEF RouterAnswers
        <3>2. r >= r
            BY <3>1
        <3>3. QED
            BY <3>2 DEF Max
    <2>5. K[c] = ParentChildren(r, ans[r])[c]
        BY <1>1, <2>3, <2>4, Zenon
    <2> HIDE DEF K, lists, D
    <2>6. /\ IsNode(K[c], c) /\ K[c].discovery = "parent-table" /\ K[c].role = "child"
          /\ K[c].parent = r /\ K[c].routes = {} /\ K[c].children = {}
        BY <2>1, <2>5, ListedRecord
    <2>7. QED
        BY <2>2, <2>6 DEF ChildRecord
<1>3. DOMAIN K = D
    BY <1>1, Zenon
<1> HIDE DEF D, K
<1>4. D \in SUBSET Nat /\ IsFiniteSet(D)
    <2>1. D \in SUBSET Nat /\ \A c \in D : c <= 66558
        BY <1>2
    <2>2. QED
        BY <2>1, FS_BoundedSetOfNaturals
<1>5. QED
    BY <1>2, <1>3, <1>4 DEF K, D

\* The first of a list and the others.
LEMMA FirstAndRest ==
    ASSUME NEW q \in Seq(Nat), q # <<>>
    PROVE  /\ Head(q) \in Nat /\ Tail(q) \in Seq(Nat)
           /\ Range(q) = {Head(q)} \cup Range(Tail(q))
           /\ IsInjective(q) => Head(q) \notin Range(Tail(q)) /\ IsInjective(Tail(q))
<1> DEFINE h == Head(q)
           t == Tail(q)
           n == Len(q)
<1>1. /\ h \in Nat /\ t \in Seq(Nat) /\ h = q[1] /\ Len(t) = n - 1 /\ n \in Nat /\ n >= 1
      /\ DOMAIN t = 1..(n - 1) /\ DOMAIN q = 1..n
      /\ \A i \in 1..(n - 1) : t[i] = q[i + 1]
    OBVIOUS
<1> HIDE DEF h, t, n
<1>2. \A i \in 1..n : i = 1 \/ i - 1 \in 1..(n - 1)
    BY <1>1
<1>3. \A i \in 1..n : i # 1 => t[i - 1] = q[i]
    BY <1>1, <1>2
<1>4. \A i \in 1..(n - 1) : i + 1 \in 1..n /\ i + 1 # 1
    BY <1>1
<1>5. 1 \in 1..n
    BY <1>1
<1>6. Range(q) = {h} \cup Range(t)
    <2>1. ASSUME NEW x \in Range(q) PROVE x \in {h} \cup Range(t)
        <3>1. PICK i \in 1..n : x = q[i]
            BY <1>1, Zenon DEF Range
        <3>2. i = 1 \/ (i - 1 \in DOMAIN t /\ x = t[i - 1])
            BY <1>1, <1>2, <1>3, <3>1, Zenon
        <3>3. QED
            BY <1>1, <3>1, <3>2, Zenon DEF Range
    <2>2. ASSUME NEW x \in Range(t) PROVE x \in Range(q)
        <3>1. PICK i \in 1..(n - 1) : x = t[i]
            BY <1>1, Zenon DEF Range
        <3>2. i + 1 \in DOMAIN q /\ x = q[i + 1]
            BY <1>1, <1>4, <3>1, Zenon
        <3>3. QED
            BY <3>2, Zenon DEF Range
    <2>3. h \in Range(q)
        BY <1>1, <1>5, Zenon DEF Range
    <2>4. QED
        BY <2>1, <2>2, <2>3, Zenon
<1>7. ASSUME IsInjective(q) PROVE h \notin Range(t) /\ IsInjective(t)
    <2>1. \A i, j \in 1..n : q[i] = q[j] => i = j
        BY <1>1, <1>7, Zenon DEF IsInjective
    <2>2. \A i \in 1..(n - 1) : t[i] # h
        BY <1>1, <1>4, <1>5, <2>1
    <2>3. ASSUME NEW i \in 1..(n - 1), NEW j \in 1..(n - 1), t[i] = t[j] PROVE i = j
        <3>1. i + 1 = j + 1
            BY <1>1, <1>4, <2>1, <2>3
        <3>2. QED
            BY <3>1
    <2>4. QED
        BY <1>1, <2>2, <2>3, Zenon DEF IsInjective, Range
<1>8. QED
    BY <1>1, <1>6, <1>7, Zenon DEF h, t

\* The answers of a walk are answers of routers.
LEMMA AnswersOfRouters ==
    ASSUME NEW ns, NEW ans, Recorded(ns, ans)
    PROVE  RouterAnswers(ans)
<1> SUFFICES ASSUME NEW r \in DOMAIN ans
             PROVE  /\ r \in Nat /\ r < 65536 /\ ~IsChild(r)
                    /\ "child_table" \in DOMAIN ans[r] =>
                            \A id \in ans[r]["child_table"] : id \in Nat /\ 0 < id /\ id < 1024
    BY DEF RouterAnswers
<1>1. r \in Reachable /\ ~IsChild(r) /\ Of(ans[r], r)
    BY DEF Recorded
<1>2. r \in DOMAIN Mesh
    BY <1>1, CollectorAssumption
<1>3. r \in Nat /\ r < 65536
    BY <1>2, RlocAssumption
<1>4. \A id \in Mesh[r]["child_table"] : id \in Nat /\ 0 < id /\ id < 1024
    BY <1>1, <1>2, RlocAssumption DEF RoutersOfMesh
<1>5. "child_table" \in DOMAIN ans[r] => ans[r]["child_table"] = Mesh[r]["child_table"]
    BY <1>1 DEF Of
<1>6. QED
    BY <1>1, <1>3, <1>4, <1>5

-----------------------------------------------------------------------------
(* The graph *)

\* A router that told of its routes, the neighbors it may have, and its view of one.
Tells(ns, r) == r \in DOMAIN ns /\ "route64" \in ns[r].tlvs
Near(r, o) == r # o /\ Quality(r, o) + Quality(o, r) > 0
Seen(r, o) == [in |-> Quality(r, o), out |-> Quality(o, r)]
Kind(r, e) ==
    IF e.id = RouterId(r) THEN "self"
    ELSE IF e.in > 0 \/ e.out > 0 THEN "neighbor" ELSE "multihop"
Route(r, e) == [router |-> e.id, relation |-> Kind(r, e), in |-> e.in, out |-> e.out]

\* An ID and its RLOC16 determine each other.
LEMMA IdOfRloc ==
    ASSUME NEW id \in Nat
    PROVE  RouterId(RouterRloc(id)) = id
BY DEF RouterId, RouterRloc

\* The one entry of a router for another.
LEMMA EntryOf ==
    ASSUME NEW r \in RoutersOfMesh, NEW o \in RoutersOfMesh
    PROVE  \E e \in Mesh[r]["route64"] :
                /\ e.id = RouterId(o) /\ RouterRloc(e.id) = o
                /\ e.in = Quality(r, o) /\ e.out = Quality(o, r)
                /\ e.in \in 0..3 /\ e.out \in 0..3
                /\ \A g \in Mesh[r]["route64"] : RouterRloc(g.id) = o => g = e
<1>1. PICK e \in Entries(r, o), f \in Entries(o, r) :
                /\ Entries(r, o) = {e} /\ Entries(o, r) = {f}
                /\ e.in = f.out /\ e.out = f.in
                /\ e.in \in 0..3 /\ e.out \in 0..3
    BY MeshAssumption
<1>2. ASSUME NEW a \in RoutersOfMesh, NEW b \in RoutersOfMesh, NEW x, Entries(a, b) = {x}
      PROVE  /\ x \in Mesh[a]["route64"] /\ x.id = RouterId(b) /\ RouterRloc(x.id) = b
             /\ \A g \in Mesh[a]["route64"] : RouterRloc(g.id) = b => g = x
             /\ Quality(a, b) = x.in
    <2>1. x \in Mesh[a]["route64"] /\ x.id = RouterId(b)
        BY <1>2 DEF Entries
    <2>2. b \in Nat /\ ~IsChild(b)
        BY RlocAssumption DEF RoutersOfMesh
    <2>3. RouterRloc(x.id) = b
        BY <2>1, <2>2, RlocOfRouter
    <2>4. ASSUME NEW g \in Mesh[a]["route64"], RouterRloc(g.id) = b PROVE g = x
        <3>1. g.id \in Nat
            BY MeshAssumption
        <3>2. g.id = RouterId(b)
            BY <2>4, <3>1, IdOfRloc
        <3>3. g \in Entries(a, b)
            BY <3>2 DEF Entries
        <3>4. QED
            BY <1>2, <3>3
    <2>5. (CHOOSE g \in Mesh[a]["route64"] : RouterRloc(g.id) = b) = x
        BY <2>1, <2>3, <2>4
    <2>6. Quality(a, b) = x.in
        BY <2>5, Zenon DEF Quality
    <2>7. QED
        BY <2>1, <2>3, <2>4, <2>6
<1>3. /\ e \in Mesh[r]["route64"] /\ e.id = RouterId(o) /\ RouterRloc(e.id) = o
      /\ \A g \in Mesh[r]["route64"] : RouterRloc(g.id) = o => g = e
      /\ Quality(r, o) = e.in
    BY <1>1, <1>2
<1>4. Quality(o, r) = f.in
    BY <1>1, <1>2
<1>5. QED
    BY <1>1, <1>3, <1>4, Zenon

\* The routes of a record are the Route64 of a router that told of it.
LEMMA RoutesOf ==
    ASSUME NEW ns, NEW ans, Recorded(ns, ans), NEW r \in DOMAIN ns
    PROVE  /\ ~IsChild(r) => r \in RoutersOfMesh
           /\ (IsChild(r) \/ ~Tells(ns, r)) => ns[r].routes = {}
           /\ (~IsChild(r) /\ Tells(ns, r)) =>
                    ns[r].routes = {Route(r, e) : e \in Mesh[r]["route64"]}
<1>1. CASE IsChild(r)
    BY <1>1, Zenon DEF Recorded, ChildRecord
<1>2. CASE ~IsChild(r) /\ r \notin DOMAIN ans
    <2>1. RouterRecord(r, ns, ans)
        BY <1>2 DEF Recorded
    <2>2. ns[r] = Skeleton(r, ns[r].role, "unreachable") /\ r \in RoutersOfMesh
        BY <1>2, <2>1 DEF RouterRecord
    <2>3. ns[r].routes = {} /\ ns[r].tlvs = {}
        BY <2>2, SkeletonRecord
    <2>4. QED
        BY <1>2, <2>2, <2>3, Zenon DEF Tells
<1>3. CASE ~IsChild(r) /\ r \in DOMAIN ans
    <2> DEFINE role == ns[r].role
               s == Skeleton(r, role, "direct")
    <2>1. RouterRecord(r, ns, ans) /\ r \in Reachable /\ Of(ans[r], r)
        BY <1>3 DEF Recorded
    <2>2. ns[r] = FromDiag(r, role, ans[r]) /\ r \in RoutersOfMesh
        BY <1>3, <2>1 DEF RouterRecord
    <2> HIDE DEF role
    <2>3. /\ ns[r].tlvs = DOMAIN ans[r] \ {"mac", "child_ipv6"}
          /\ "route64" \notin DOMAIN ans[r] => ns[r].routes = {}
        BY <2>1, <2>2, DirectRecord
    <2>4. ASSUME "route64" \in DOMAIN ans[r]
          PROVE  ns[r].routes = {Route(r, e) : e \in Mesh[r]["route64"]}
        <3>1. ans[r]["route64"] = Mesh[r]["route64"]
            BY <2>1, <2>4 DEF Of
        <3>2. s.rloc = r
            BY DEF Skeleton
        <3>3. \A e : Relation(s, e) = Kind(r, e)
            BY <3>2 DEF Relation, Kind
        <3>4. ns[r] = MergeDiag(s, ans[r])
            BY <2>2 DEF FromDiag
        <3>5. MergeDiag(s, ans[r]).routes =
                {[router |-> e.id, relation |-> Relation(s, e), in |-> e.in, out |-> e.out] :
                    e \in ans[r]["route64"]}
            BY <2>4 DEF MergeDiag, Skeleton
        <3> HIDE DEF s
        <3>6. QED
            BY <3>1, <3>3, <3>4, <3>5 DEF Route
    <2>5. QED
        BY <1>3, <2>2, <2>3, <2>4 DEF Tells
<1>4. QED
    BY <1>1, <1>2, <1>3

\* What the qualities are, and who is a neighbor of whom.
LEMMA NearBoth ==
    ASSUME NEW r \in RoutersOfMesh, NEW o \in RoutersOfMesh
    PROVE  /\ Quality(r, o) \in 0..3 /\ Quality(o, r) \in 0..3
           /\ Near(r, o) <=> Near(o, r)
           /\ Near(r, o) <=> (r # o /\ (Quality(r, o) > 0 \/ Quality(o, r) > 0))
<1>1. Quality(r, o) \in 0..3 /\ Quality(o, r) \in 0..3
    BY EntryOf
<1> DEFINE a == Quality(r, o)
           b == Quality(o, r)
<1>2. /\ Near(r, o) <=> (r # o /\ a + b > 0)
      /\ Near(o, r) <=> (r # o /\ b + a > 0)
    BY DEF Near
<1> HIDE DEF a, b
<1>3. a \in 0..3 /\ b \in 0..3
    BY <1>1 DEF a, b
<1>4. a + b > 0 <=> (a > 0 \/ b > 0)
    BY <1>3
<1>5. b + a > 0 <=> (a > 0 \/ b > 0)
    BY <1>3
<1>6. QED
    BY <1>1, <1>2, <1>4, <1>5 DEF a, b

\* Two routers have two IDs.
LEMMA IdsDiffer ==
    ASSUME NEW r \in RoutersOfMesh, NEW o \in RoutersOfMesh, RouterId(r) = RouterId(o)
    PROVE  r = o
<1>1. r \in Nat /\ ~IsChild(r) /\ o \in Nat /\ ~IsChild(o)
    BY RlocAssumption DEF RoutersOfMesh
<1>2. RouterRloc(RouterId(r)) = r /\ RouterRloc(RouterId(o)) = o
    BY <1>1, RlocOfRouter
<1>3. QED
    BY <1>2

\* The entry by which one router calls another its neighbor.
LEMMA NeighborEntry ==
    ASSUME NEW ns, NEW ans, Recorded(ns, ans), NEW r \in DOMAIN ns, NEW o
    PROVE  \A x : (x \in ns[r].routes /\ x.relation = "neighbor" /\ RouterRloc(x.router) = o) <=>
                /\ ~IsChild(r) /\ Tells(ns, r) /\ o \in RoutersOfMesh /\ Near(r, o)
                /\ x = [router |-> RouterId(o), relation |-> "neighbor",
                        in |-> Quality(r, o), out |-> Quality(o, r)]
<1> TAKE x
<1>1. ASSUME x \in ns[r].routes, x.relation = "neighbor", RouterRloc(x.router) = o
      PROVE  /\ ~IsChild(r) /\ Tells(ns, r) /\ o \in RoutersOfMesh /\ Near(r, o)
             /\ x = [router |-> RouterId(o), relation |-> "neighbor",
                     in |-> Quality(r, o), out |-> Quality(o, r)]
    <2>1. /\ ~IsChild(r) /\ Tells(ns, r) /\ r \in RoutersOfMesh
          /\ ns[r].routes = {Route(r, e) : e \in Mesh[r]["route64"]}
        BY <1>1, RoutesOf, Zenon
    <2>2. PICK e \in Mesh[r]["route64"] : x = Route(r, e)
        BY <1>1, <2>1
    <2>3. x.router = e.id /\ x.relation = Kind(r, e) /\ x.in = e.in /\ x.out = e.out
        BY <2>2 DEF Route
    <2>4. e.id # RouterId(r) /\ (e.in > 0 \/ e.out > 0)
        BY <1>1, <2>3 DEF Kind
    <2>5. o \in RoutersOfMesh
        BY <1>1, <2>1, <2>3, MeshAssumption, Zenon
    <2>6. e.id = RouterId(o) /\ e.in = Quality(r, o) /\ e.out = Quality(o, r)
        BY <1>1, <2>1, <2>3, <2>5, EntryOf
    <2>7. Near(r, o)
        BY <2>1, <2>4, <2>5, <2>6, NearBoth, Zenon
    <2>8. x = [router |-> RouterId(o), relation |-> "neighbor",
               in |-> Quality(r, o), out |-> Quality(o, r)]
        BY <1>1, <2>2, <2>3, <2>6 DEF Route
    <2>9. QED
        BY <2>1, <2>5, <2>7, <2>8, Zenon
<1>2. ASSUME ~IsChild(r), Tells(ns, r), o \in RoutersOfMesh, Near(r, o),
             x = [router |-> RouterId(o), relation |-> "neighbor",
                  in |-> Quality(r, o), out |-> Quality(o, r)]
      PROVE  x \in ns[r].routes /\ x.relation = "neighbor" /\ RouterRloc(x.router) = o
    <2>1. r \in RoutersOfMesh /\ ns[r].routes = {Route(r, e) : e \in Mesh[r]["route64"]}
        BY <1>2, RoutesOf, Zenon
    <2>2. PICK e \in Mesh[r]["route64"] : /\ e.id = RouterId(o) /\ RouterRloc(e.id) = o
                                          /\ e.in = Quality(r, o) /\ e.out = Quality(o, r)
        BY <1>2, <2>1, EntryOf, Zenon
    <2>3. e.id # RouterId(r)
        BY <1>2, <2>1, <2>2, IdsDiffer, Zenon DEF Near
    <2>4. e.in > 0 \/ e.out > 0
        BY <1>2, <2>1, <2>2, NearBoth, Zenon
    <2>5. Kind(r, e) = "neighbor"
        BY <2>3, <2>4 DEF Kind
    <2>6. x = Route(r, e)
        BY <1>2, <2>2, <2>5, Zenon DEF Route
    <2>7. QED
        BY <1>2, <2>1, <2>2, <2>6
<1>3. QED
    BY <1>1, <1>2, Zenon

\* A record calls neighbors what its router hears or is heard by, if it tells.
LEMMA NeighborsOf ==
    ASSUME NEW ns, NEW ans, Recorded(ns, ans), NEW r \in DOMAIN ns
    PROVE  Neighbors(ns, r) =
                {o \in RoutersOfMesh : ~IsChild(r) /\ Tells(ns, r) /\ Near(r, o)}
<1>1. \A o : o \in Neighbors(ns, r) <=>
                \E x : x \in ns[r].routes /\ x.relation = "neighbor" /\ RouterRloc(x.router) = o
    BY DEF Neighbors
<1>2. \A o : (\E x : x \in ns[r].routes /\ x.relation = "neighbor" /\ RouterRloc(x.router) = o) <=>
                (~IsChild(r) /\ Tells(ns, r) /\ o \in RoutersOfMesh /\ Near(r, o))
    <2> TAKE o
    <2> DEFINE P(x) == x \in ns[r].routes /\ x.relation = "neighbor" /\ RouterRloc(x.router) = o
               Q == ~IsChild(r) /\ Tells(ns, r) /\ o \in RoutersOfMesh /\ Near(r, o)
               y == [router |-> RouterId(o), relation |-> "neighbor",
                     in |-> Quality(r, o), out |-> Quality(o, r)]
    <2>1. \A x : P(x) <=> (Q /\ x = y)
        BY NeighborEntry
    <2> HIDE DEF P, Q, y
    <2>2. (\E x : P(x)) <=> Q
        BY <2>1
    <2>3. QED
        BY <2>2 DEF P, Q
<1>3. QED
    BY <1>1, <1>2

\* A router's view of another is the mesh's, if it tells and they are neighbors.
LEMMA ViewOf ==
    ASSUME NEW ns, NEW ans, Recorded(ns, ans), NEW a \in RoutersOfMesh, NEW b \in RoutersOfMesh
    PROVE  View(ns, a, b) = IF Tells(ns, a) /\ Near(a, b) THEN Seen(a, b) ELSE None
<1> DEFINE own == {e \in (IF a \in DOMAIN ns THEN ns[a].routes ELSE {}) :
                        e.relation = "neighbor" /\ RouterRloc(e.router) = b}
           x == [router |-> RouterId(b), relation |-> "neighbor",
                 in |-> Quality(a, b), out |-> Quality(b, a)]
<1>1. View(ns, a, b) = IF own = {} THEN None
                       ELSE [in |-> (CHOOSE e \in own : TRUE).in, out |-> (CHOOSE e \in own : TRUE).out]
    BY Zenon DEF View
<1>2. ~IsChild(a)
    BY DEF RoutersOfMesh
<1>3. own = IF Tells(ns, a) /\ Near(a, b) THEN {x} ELSE {}
    <2>1. CASE a \in DOMAIN ns
        <3>1. \A y : y \in own <=> (Tells(ns, a) /\ Near(a, b) /\ y = x)
            BY <1>2, <2>1, NeighborEntry
        <3> HIDE DEF own, x
        <3>2. QED
            BY <3>1
    <2>2. CASE a \notin DOMAIN ns
        BY <2>2, Zenon DEF Tells
    <2>3. QED
        BY <2>1, <2>2, Zenon
<1>4. x.in = Quality(a, b) /\ x.out = Quality(b, a)
    OBVIOUS
<1> HIDE DEF own, x
<1>5. CASE Tells(ns, a) /\ Near(a, b)
    <2>1. own = {x} /\ own # {}
        BY <1>3, <1>5
    <2>2. (CHOOSE e \in own : TRUE) = x
        BY <2>1
    <2>3. QED
        BY <1>1, <1>4, <1>5, <2>1, <2>2, Zenon DEF Seen
<1>6. CASE ~(Tells(ns, a) /\ Near(a, b))
    BY <1>1, <1>3, <1>6
<1>7. QED
    BY <1>5, <1>6

Pair(ns, r, o) == Near(r, o) /\ (Tells(ns, r) \/ Tells(ns, o))

\* There is one link for each pair of neighbors of which one told of its routes.
LEMMA LinksOf ==
    ASSUME NEW ns, NEW ans, Recorded(ns, ans)
    PROVE  MeshLinks(ns) =
                {[a |-> p[1], b |-> p[2], a_view |-> View(ns, p[1], p[2]),
                  b_view |-> View(ns, p[2], p[1])] :
                    p \in {q \in RoutersOfMesh \X RoutersOfMesh : q[1] < q[2] /\ Pair(ns, q[1], q[2])}}
<1> DEFINE pairs == UNION {{IF a <= b THEN <<a, b>> ELSE <<b, a>> : b \in Neighbors(ns, a)} :
                                a \in DOMAIN ns}
           drawn == {q \in RoutersOfMesh \X RoutersOfMesh : q[1] < q[2] /\ Pair(ns, q[1], q[2])}
<1>1. MeshLinks(ns) = {[a |-> p[1], b |-> p[2], a_view |-> View(ns, p[1], p[2]),
                        b_view |-> View(ns, p[2], p[1])] : p \in pairs}
    BY Zenon DEF MeshLinks
<1>2. \A r \in RoutersOfMesh : r \in Nat
    BY RlocAssumption DEF RoutersOfMesh
<1>3. ASSUME NEW p \in pairs PROVE p \in drawn
    <2>1. PICK a \in DOMAIN ns : \E b \in Neighbors(ns, a) : p = IF a <= b THEN <<a, b>> ELSE <<b, a>>
        BY <1>3
    <2>2. PICK b \in Neighbors(ns, a) : p = IF a <= b THEN <<a, b>> ELSE <<b, a>>
        BY <2>1
    <2>3. b \in RoutersOfMesh /\ ~IsChild(a) /\ Tells(ns, a) /\ Near(a, b)
        BY <2>2, NeighborsOf
    <2>4. a \in RoutersOfMesh
        BY <2>3, RoutesOf
    <2>5. a \in Nat /\ b \in Nat /\ a # b
        BY <1>2, <2>3, <2>4 DEF Near
    <2>6. Pair(ns, a, b) /\ Pair(ns, b, a)
        BY <2>3, <2>4, NearBoth, Zenon DEF Pair
    <2>7. \/ p = <<a, b>> /\ a < b
          \/ p = <<b, a>> /\ b < a
        BY <2>2, <2>5
    <2>8. QED
        BY <2>3, <2>4, <2>6, <2>7
<1>4. ASSUME NEW p \in drawn PROVE p \in pairs
    <2>1. PICK a \in RoutersOfMesh, b \in RoutersOfMesh : p = <<a, b>> /\ a < b /\ Pair(ns, a, b)
        BY <1>4
    <2>2. a \in Nat /\ b \in Nat /\ ~IsChild(a) /\ ~IsChild(b)
        BY <1>2, <2>1 DEF RoutersOfMesh
    <2>3. Near(a, b) /\ Near(b, a)
        BY <2>1, NearBoth DEF Pair
    <2>4. CASE Tells(ns, a)
        <3>1. a \in DOMAIN ns /\ b \in Neighbors(ns, a)
            BY <2>1, <2>2, <2>3, <2>4, NeighborsOf DEF Tells
        <3>2. p = IF a <= b THEN <<a, b>> ELSE <<b, a>>
            BY <2>1, <2>2
        <3>3. QED
            BY <3>1, <3>2
    <2>5. CASE Tells(ns, b)
        <3>1. b \in DOMAIN ns /\ a \in Neighbors(ns, b)
            BY <2>1, <2>2, <2>3, <2>5, NeighborsOf DEF Tells
        <3>2. p = IF b <= a THEN <<b, a>> ELSE <<a, b>>
            BY <2>1, <2>2
        <3>3. QED
            BY <3>1, <3>2
    <2>6. QED
        BY <2>1, <2>4, <2>5 DEF Pair
<1> HIDE DEF pairs, drawn
<1>5. pairs = drawn
    BY <1>3, <1>4
<1>6. QED
    BY <1>1, <1>5 DEF drawn

\* Each end sees it from its own side, whoever told.
LEMMA OwnViewOf ==
    ASSUME NEW ns, NEW ans, Recorded(ns, ans), NEW r \in RoutersOfMesh, NEW o \in RoutersOfMesh,
           Pair(ns, r, o)
    PROVE  OwnView(View(ns, r, o), View(ns, o, r)) = Seen(r, o)
<1>1. /\ Quality(r, o) \in 0..3 /\ Quality(o, r) \in 0..3 /\ Near(r, o) /\ Near(o, r)
      /\ Tells(ns, r) \/ Tells(ns, o)
    BY NearBoth DEF Pair
<1>2. Seen(r, o) \in [in : 0..3, out : 0..3] /\ Seen(o, r) \in [in : 0..3, out : 0..3]
    BY <1>1 DEF Seen
<1>3. Seen(r, o) # None /\ Seen(o, r) # None
    BY <1>2, MeshAssumption, Zenon
<1>4. /\ View(ns, r, o) = IF Tells(ns, r) THEN Seen(r, o) ELSE None
      /\ View(ns, o, r) = IF Tells(ns, o) THEN Seen(o, r) ELSE None
    BY <1>1, ViewOf
<1>5. [in |-> Seen(o, r).out, out |-> Seen(o, r).in] = Seen(r, o)
    BY DEF Seen
<1>6. QED
    BY <1>1, <1>3, <1>4, <1>5 DEF OwnView

\* The links of one router as the graph shows them.
LEMMA ShownOf ==
    ASSUME NEW ns, NEW ans, Recorded(ns, ans), NEW r \in RoutersOfMesh
    PROVE  MeshNeighbors(MeshLinks(ns), r) =
                {[other |-> o, view |-> Seen(r, o)] : o \in {o \in RoutersOfMesh : Pair(ns, r, o)}}
<1> DEFINE L == MeshLinks(ns)
           Link(a, b) == [a |-> a, b |-> b, a_view |-> View(ns, a, b), b_view |-> View(ns, b, a)]
           drawn == {q \in RoutersOfMesh \X RoutersOfMesh : q[1] < q[2] /\ Pair(ns, q[1], q[2])}
           shown == {[other |-> o, view |-> Seen(r, o)] : o \in {o \in RoutersOfMesh : Pair(ns, r, o)}}
<1>1. L = {Link(p[1], p[2]) : p \in drawn}
    BY LinksOf
<1>2. MeshNeighbors(L, r) =
        {[other |-> l.b, view |-> OwnView(l.a_view, l.b_view)] : l \in {l \in L : l.a = r}}
        \cup {[other |-> l.a, view |-> OwnView(l.b_view, l.a_view)] :
                    l \in {l \in L : l.b = r /\ l.a # r}}
    BY Zenon DEF MeshNeighbors
<1>3. \A a, b : /\ Link(a, b).a = a /\ Link(a, b).b = b
                /\ Link(a, b).a_view = View(ns, a, b) /\ Link(a, b).b_view = View(ns, b, a)
    OBVIOUS
<1>4. \A q \in RoutersOfMesh : q \in Nat
    BY RlocAssumption DEF RoutersOfMesh
<1>5. \A a, b \in RoutersOfMesh : Pair(ns, a, b) => Pair(ns, b, a) /\ a # b
    BY NearBoth DEF Pair, Near
<1> HIDE DEF L, Link
<1>6. ASSUME NEW x \in MeshNeighbors(L, r) PROVE x \in shown
    <2>1. CASE \E l \in L : l.a = r /\ x = [other |-> l.b, view |-> OwnView(l.a_view, l.b_view)]
        <3>1. PICK l \in L : l.a = r /\ x = [other |-> l.b, view |-> OwnView(l.a_view, l.b_view)]
            BY <2>1
        <3>2. PICK a \in RoutersOfMesh, b \in RoutersOfMesh : l = Link(a, b) /\ Pair(ns, a, b)
            BY <1>1, <3>1
        <3>3. a = r /\ x = [other |-> b, view |-> OwnView(View(ns, a, b), View(ns, b, a))]
            BY <1>3, <3>1, <3>2
        <3>4. x = [other |-> b, view |-> Seen(r, b)] /\ Pair(ns, r, b)
            BY <3>2, <3>3, OwnViewOf
        <3>5. QED
            BY <3>4, Zenon
    <2>2. CASE \E l \in L : l.b = r /\ x = [other |-> l.a, view |-> OwnView(l.b_view, l.a_view)]
        <3>1. PICK l \in L : l.b = r /\ x = [other |-> l.a, view |-> OwnView(l.b_view, l.a_view)]
            BY <2>2
        <3>2. PICK a \in RoutersOfMesh, b \in RoutersOfMesh : l = Link(a, b) /\ Pair(ns, a, b)
            BY <1>1, <3>1
        <3>3. b = r /\ x = [other |-> a, view |-> OwnView(View(ns, b, a), View(ns, a, b))]
            BY <1>3, <3>1, <3>2
        <3>4. Pair(ns, r, a)
            BY <1>5, <3>2, <3>3
        <3>5. x = [other |-> a, view |-> Seen(r, a)]
            BY <3>2, <3>3, <3>4, OwnViewOf
        <3>6. QED
            BY <3>4, <3>5
    <2>3. QED
        BY <1>2, <1>6, <2>1, <2>2, Zenon
<1>7. ASSUME NEW o \in RoutersOfMesh, Pair(ns, r, o)
      PROVE  [other |-> o, view |-> Seen(r, o)] \in MeshNeighbors(L, r)
    <2>1. OwnView(View(ns, r, o), View(ns, o, r)) = Seen(r, o)
        BY <1>7, OwnViewOf
    <2>2. r \in Nat /\ o \in Nat /\ r # o /\ Pair(ns, o, r)
        BY <1>4, <1>5, <1>7
    <2>3. CASE r < o
        <3>1. <<r, o>> \in drawn
            BY <1>7, <2>3
        <3>2. Link(r, o) \in L
            BY <1>1, <3>1
        <3> DEFINE l == Link(r, o)
        <3>3. l \in L /\ l.a = r /\ l.b = o /\ OwnView(l.a_view, l.b_view) = Seen(r, o)
            BY <1>3, <2>1, <3>2
        <3> HIDE DEF l
        <3>4. [other |-> l.b, view |-> OwnView(l.a_view, l.b_view)] \in MeshNeighbors(L, r)
            BY <1>2, <3>3, Zenon
        <3>5. QED
            BY <3>3, <3>4
    <2>4. CASE o < r
        <3>1. <<o, r>> \in drawn
            BY <2>2, <2>4
        <3>2. Link(o, r) \in L
            BY <1>1, <3>1
        <3> DEFINE l == Link(o, r)
        <3>3. l \in L /\ l.b = r /\ l.a = o /\ l.a # r /\ OwnView(l.b_view, l.a_view) = Seen(r, o)
            BY <1>3, <2>1, <2>2, <3>2
        <3> HIDE DEF l
        <3>4. [other |-> l.a, view |-> OwnView(l.b_view, l.a_view)] \in MeshNeighbors(L, r)
            BY <1>2, <3>3, Zenon
        <3>5. QED
            BY <3>3, <3>4
    <2>5. QED
        BY <2>2, <2>3, <2>4
<1>8. QED
    BY <1>6, <1>7 DEF L

\* A router's record lists the children that its child table lists.
LEMMA ListedIn ==
    ASSUME NEW ns, NEW ans, Recorded(ns, ans), NEW r \in DOMAIN ns, NEW c
    PROVE  c \in ns[r].children <=>
                /\ ~IsChild(r) /\ r \in DOMAIN ans /\ "child_table" \in DOMAIN ans[r]
                /\ \E id \in ans[r]["child_table"] : c = r + id
<1>1. CASE IsChild(r)
    BY <1>1, Zenon DEF Recorded, ChildRecord
<1>2. CASE ~IsChild(r) /\ r \notin DOMAIN ans
    <2>1. RouterRecord(r, ns, ans)
        BY <1>2, Zenon DEF Recorded
    <2>2. ns[r] = Skeleton(r, ns[r].role, "unreachable")
        BY <1>2, <2>1, Zenon DEF RouterRecord
    <2>3. ns[r].children = {}
        BY <2>2, SkeletonRecord
    <2>4. QED
        BY <1>2, <2>3, Zenon
<1>3. CASE ~IsChild(r) /\ r \in DOMAIN ans
    <2> DEFINE role == ns[r].role
               s == Skeleton(r, role, "direct")
    <2>1. RouterRecord(r, ns, ans) /\ r \in Reachable
        BY <1>3, Zenon DEF Recorded
    <2>2. ns[r] = FromDiag(r, role, ans[r]) /\ r \in RoutersOfMesh
        BY <1>3, <2>1, Zenon DEF RouterRecord
    <2> HIDE DEF role
    <2>3. "child_table" \notin DOMAIN ans[r] => ns[r].children = {}
        BY <2>1, <2>2, DirectRecord
    <2>4. ASSUME "child_table" \in DOMAIN ans[r]
          PROVE  ns[r].children = {r + id : id \in ans[r]["child_table"]}
        <3>1. s.rloc = r
            BY Zenon DEF Skeleton
        <3>2. ns[r] = MergeDiag(s, ans[r])
            BY <2>2, Zenon DEF FromDiag
        <3>3. MergeDiag(s, ans[r]).children =
                {RouterRloc(RouterId(s.rloc)) + id : id \in ans[r]["child_table"]}
            BY <2>4 DEF MergeDiag, Skeleton
        <3> HIDE DEF s
        <3>4. RouterRloc(RouterId(r)) = r
            BY <1>3, <2>2, RlocOfRouter, RlocAssumption DEF RoutersOfMesh
        <3>5. QED
            BY <3>1, <3>2, <3>3, <3>4, Zenon
    <2>5. QED
        BY <1>3, <2>3, <2>4, Zenon
<1>4. QED
    BY <1>1, <1>2, <1>3, Zenon

\* A child hangs under the one parent that lists it.
LEMMA HangsUnder ==
    ASSUME NEW ns, NEW ans, Recorded(ns, ans), NEW c \in DOMAIN ns, IsChild(c)
    PROVE  /\ {r \in DOMAIN ns : c \in DrawnUnder(ns, r)} = {ParentRloc(c)}
           /\ {l \in ChildLinks(ns) : l.child = c} = {[parent |-> ParentRloc(c), child |-> c]}
<1> DEFINE p == ParentRloc(c)
<1>1. ChildRecord(c, ns, ans)
    BY DEF Recorded
<1>2. /\ ns[c].role = "child" /\ ns[c].parent = p /\ p \in DOMAIN ans /\ c \in Nat
      /\ "child_table" \in DOMAIN ans[p] /\ ChildId(c) \in ans[p]["child_table"]
    BY <1>1 DEF ChildRecord
<1>3. p \in DOMAIN ns /\ ~IsChild(p)
    BY <1>2 DEF Recorded
<1>4. c = p + ChildId(c)
    BY <1>2 DEF ParentRloc, ChildId
<1>5. RouterAnswers(ans)
    BY AnswersOfRouters
<1>6. ASSUME NEW r \in DOMAIN ns PROVE c \in ns[r].children <=> r = p
    <2>1. ASSUME c \in ns[r].children PROVE r = p
        <3>1. /\ ~IsChild(r) /\ r \in DOMAIN ans /\ "child_table" \in DOMAIN ans[r]
              /\ \E id \in ans[r]["child_table"] : c = r + id
            BY <2>1, ListedIn
        <3>2. PICK id \in ans[r]["child_table"] : c = r + id
            BY <3>1
        <3>3. r \in Nat /\ id \in Nat /\ 0 < id /\ id < 1024
            BY <1>5, <3>1 DEF RouterAnswers
        <3>4. QED
            BY <3>1, <3>2, <3>3, ChildOfParent
    <2>2. ASSUME r = p PROVE c \in ns[r].children
        BY <1>2, <1>3, <1>4, <2>2, ListedIn
    <2>3. QED
        BY <2>1, <2>2
<1> HIDE DEF p
<1>7. {r \in DOMAIN ns : c \in DrawnUnder(ns, r)} = {p}
    BY <1>2, <1>3 DEF DrawnUnder
<1>8. {l \in ChildLinks(ns) : l.child = c} = {[parent |-> p, child |-> c]}
    <2>1. \A l : l \in ChildLinks(ns) <=>
                \E a \in DOMAIN ns : \E d \in ns[a].children : l = [parent |-> a, child |-> d]
        BY DEF ChildLinks
    <2>2. [parent |-> p, child |-> c] \in ChildLinks(ns)
        BY <1>3, <1>6, <2>1
    <2>3. ASSUME NEW l \in ChildLinks(ns), l.child = c PROVE l = [parent |-> p, child |-> c]
        <3>1. PICK a \in DOMAIN ns : \E d \in ns[a].children : l = [parent |-> a, child |-> d]
            BY <2>1
        <3>2. PICK d \in ns[a].children : l = [parent |-> a, child |-> d]
            BY <3>1
        <3>3. d = c
            BY <2>3, <3>2
        <3>4. QED
            BY <1>6, <3>2, <3>3
    <2>4. QED
        BY <2>2, <2>3
<1>9. QED
    BY <1>7, <1>8 DEF p

\* A router has one link to each neighbor, and sees it from its own side.
LEMMA ShowsNeighbors ==
    ASSUME NEW ns, NEW ans, Recorded(ns, ans), NEW r \in DOMAIN ns, ~IsChild(r)
    PROVE  LET shown == MeshNeighbors(MeshLinks(ns), r)
               tells(x) == x \in DOMAIN ns /\ "route64" \in ns[x].tlvs
           IN  /\ {s.other : s \in shown} =
                        {o \in RoutersOfMesh \ {r} :
                            Quality(r, o) + Quality(o, r) > 0 /\ (tells(r) \/ tells(o))}
               /\ shown = {[other |-> s.other,
                            view |-> [in |-> Quality(r, s.other), out |-> Quality(s.other, r)]] :
                                s \in shown}
<1> DEFINE shown == MeshNeighbors(MeshLinks(ns), r)
           N == {o \in RoutersOfMesh : Pair(ns, r, o)}
           F(o) == [other |-> o, view |-> Seen(r, o)]
<1>1. r \in RoutersOfMesh
    BY RoutesOf
<1>2. shown = {F(o) : o \in N}
    BY <1>1, ShownOf
<1>3. \A o : F(o).other = o
    OBVIOUS
<1>4. \A o : F(o) = [other |-> o, view |-> [in |-> Quality(r, o), out |-> Quality(o, r)]]
    BY DEF Seen
<1>5. N = {o \in RoutersOfMesh \ {r} :
                /\ Quality(r, o) + Quality(o, r) > 0
                /\ \/ r \in DOMAIN ns /\ "route64" \in ns[r].tlvs
                   \/ o \in DOMAIN ns /\ "route64" \in ns[o].tlvs}
    BY DEF Pair, Near, Tells
<1> HIDE DEF shown, N, F
<1>6. {s.other : s \in shown} = N
    BY <1>2, <1>3
<1>7. shown = {F(s.other) : s \in shown}
    BY <1>2, <1>3
<1>8. {F(s.other) : s \in shown} =
        {[other |-> s.other, view |-> [in |-> Quality(r, s.other), out |-> Quality(s.other, r)]] :
            s \in shown}
    BY <1>4
<1>9. QED
    BY <1>5, <1>6, <1>7, <1>8 DEF shown

-----------------------------------------------------------------------------
(* Asking one device *)

\* The contents of the TLV lists.
LEMMA TlvContents ==
    /\ Range(RouterTlvs) =
        {"ext_mac", "mode", "timeout", "connectivity", "route64", "leader_data", "mac_counters",
         "battery", "voltage", "child_table", "channel_pages", "eui64", "child_ipv6",
         "network_data", "ipv6"}
    /\ Range(ChildTlvs) =
        {"ext_mac", "mode", "timeout", "connectivity", "leader_data", "mac_counters", "battery",
         "voltage", "channel_pages", "eui64", "ipv6"}
    /\ Range(DiscoveryTlvs) = {"route64", "leader_data"}
BY DEF Range, RouterTlvs, ChildTlvs, DiscoveryTlvs

\* Every walk asks for TLVs that are known, and there are finitely many.
LEMMA TlvsKnown ==
    ASSUME NEW p, NEW r
    PROVE  /\ TlvsFor(p, r) \in Seq(Known)
           /\ Range(TlvsFor(p, r)) \subseteq Known
           /\ IsFiniteSet(Known)
<1>1. RouterTlvs \in Seq(Known) /\ ChildTlvs \in Seq(Known) /\ DiscoveryTlvs \in Seq(Known)
    <2> DEFINE K == Known
    <2>1. /\ "ext_mac" \in K /\ "mode" \in K /\ "timeout" \in K /\ "connectivity" \in K
          /\ "route64" \in K /\ "leader_data" \in K /\ "mac_counters" \in K /\ "battery" \in K
          /\ "voltage" \in K /\ "child_table" \in K /\ "channel_pages" \in K /\ "eui64" \in K
          /\ "child_ipv6" \in K /\ "network_data" \in K /\ "ipv6" \in K
        BY TlvContents DEF Known
    <2> HIDE DEF K
    <2>2. RouterTlvs \in Seq(K)
        BY <2>1 DEF RouterTlvs
    <2>3. ChildTlvs \in Seq(K)
        BY <2>1 DEF ChildTlvs
    <2>4. DiscoveryTlvs \in Seq(K)
        BY <2>1 DEF DiscoveryTlvs
    <2>5. QED
        BY <2>2, <2>3, <2>4 DEF K
<1>2. IsFiniteSet(Known)
    <2> DEFINE q == RouterTlvs
    <2>1. Len(q) \in Nat /\ DOMAIN q = 1..Len(q)
        BY <1>1
    <2> HIDE DEF q
    <2>2. IsFiniteSet(1..Len(q))
        BY <2>1, FS_Interval
    <2>3. [i \in 1..Len(q) |-> q[i]] \in Surjection(1..Len(q), Range(q))
        BY <2>1 DEF Surjection, Range
    <2>4. QED
        BY <2>2, <2>3, FS_Surjection DEF Known, q
<1>3. TlvsFor(p, r) \in {RouterTlvs, ChildTlvs, DiscoveryTlvs}
    BY DEF TlvsFor
<1>4. Range(ChildTlvs) \subseteq Known /\ Range(DiscoveryTlvs) \subseteq Known
    BY TlvContents DEF Known
<1>5. QED
    BY <1>1, <1>2, <1>3, <1>4 DEF Known

\* The primer's TLV fits every response.
LEMMA PrimerFits ==
    ASSUME primes > 0
    PROVE  /\ Batch = <<"mac">> /\ Range(Batch) = {"mac"}
           /\ Fits(Held(Batch))
<1>1. Batch = <<"mac">> /\ Range(<<"mac">>) = {"mac"}
    BY DEF Batch, Range
<1>2. Held(Batch) \subseteq {"mac"}
    BY <1>1 DEF Held
<1>3. Size["mac"] \in Nat /\ Size["mac"] <= Cap
    BY SizesAssumption
<1>4. QED
    BY <1>1, <1>2, <1>3, FitsOne

\* A device that the walk turns to has not been asked anything.
LEMMA AskFresh ==
    ASSUME NEW p, p # "discover", NEW r, NEW rest \in Seq(Nat), Ask(p, r, rest),
           faults' \in [lost : Nat, cut : Nat, ended : Nat]
    PROVE  /\ DeviceInv' /\ LossInv'
           /\ todo' \in Seq(Nat) /\ primes' \in 0..PrimeAttempts /\ stack' \in Seq(Seq(Known))
<1>1. /\ phase' = p /\ target' = r /\ todo' = rest /\ primes' = PrimeAttempts
      /\ stack' = <<>> /\ merged' = Empty /\ PrimeAttempts \in Nat \ {0}
    BY CollectorAssumption DEF Ask
<1>2. DOMAIN merged' = {} /\ AllIn(stack') = {}
    BY <1>1 DEF AllIn, Empty
<1>3. DeviceInv'
    BY <1>1, <1>2 DEF DeviceInv, Of
<1>4. LossInv'
    BY <1>1 DEF LossInv
<1>5. QED
    BY <1>1, <1>3, <1>4

\* What an answer to (a part of) the batch changes.
LEMMA AnsweredEffect ==
    ASSUME WalkType, Asking, NEW part, Answered(Restrict(Mesh[Device], Held(part)))
    PROVE  /\ phase' = phase /\ target' = target /\ goal' = goal /\ todo' = todo
           /\ nodes' = nodes /\ answers' = answers /\ leader' = leader
           /\ primes' = 0 /\ Device' = Device /\ Tlvs' = Tlvs
           /\ DOMAIN merged' = DOMAIN merged \cup Held(part)
           /\ \A t \in DOMAIN merged' :
                merged'[t] = IF t \in Held(part) THEN Mesh[Device][t] ELSE merged[t]
           /\ stack' \in Seq(Seq(Known))
           /\ primes > 0 => AllIn(stack') = Tlvs
           /\ primes = 0 => AllIn(stack) = Range(Batch) \cup AllIn(stack')
<1>1. /\ phase' = phase /\ target' = target /\ goal' = goal /\ todo' = todo
      /\ nodes' = nodes /\ answers' = answers /\ leader' = leader /\ primes' = 0
      /\ merged' = MergeNetdiag(merged, Restrict(Mesh[Device], Held(part)))
      /\ stack' = IF primes > 0 THEN Chunks(TlvsFor(phase, target)) ELSE Tail(stack)
    BY DEF Answered
<1>2. Device' = Device /\ Tlvs' = Tlvs
    BY <1>1 DEF Device, Tlvs
<1>3. /\ DOMAIN merged' = DOMAIN merged \cup Held(part)
      /\ \A t \in DOMAIN merged' :
            merged'[t] = IF t \in Held(part) THEN Mesh[Device][t] ELSE merged[t]
    <2> DEFINE data == Restrict(Mesh[Device], Held(part))
    <2>1. DOMAIN data = Held(part) /\ \A t \in Held(part) : data[t] = Mesh[Device][t]
        BY DEF Restrict
    <2> HIDE DEF data
    <2>2. QED
        BY <1>1, <2>1 DEF MergeNetdiag, Extend, data
<1>4. CASE primes > 0
    <2>1. stack' = Chunks(TlvsFor(phase, target)) /\ TlvsFor(phase, target) \in Seq(Known)
        BY <1>1, <1>4, TlvsKnown
    <2>2. stack' \in Seq(Seq(Known)) /\ AllIn(stack') = Tlvs
        BY <2>1, ChunksOf DEF Tlvs
    <2>3. ~(primes = 0)
        BY <1>4 DEF WalkType
    <2>4. QED
        BY <1>1, <1>2, <1>3, <2>2, <2>3
<1>5. CASE ~(primes > 0)
    <2>1. stack # <<>> /\ stack' = Tail(stack) /\ Batch = Head(stack) /\ stack \in Seq(Seq(Known))
        BY <1>1, <1>5 DEF Asking, Batch, WalkType
    <2>2. stack' \in Seq(Seq(Known)) /\ AllIn(stack) = Range(Batch) \cup AllIn(stack')
        BY <2>1, AllInTail
    <2>3. QED
        BY <1>1, <1>2, <1>3, <1>5, <2>2
<1>6. QED
    BY <1>4, <1>5

\* What has been answered stays true of the device.
LEMMA AnsweredDevice ==
    ASSUME WalkType, DeviceInv, Asking, Device \in Reachable,
           NEW part, Range(part) \subseteq Range(Batch), primes > 0 => part = Batch,
           Answered(Restrict(Mesh[Device], Held(part)))
    PROVE  DeviceInv'
<1>1. /\ phase' = phase /\ primes' = 0 /\ Device' = Device /\ Tlvs' = Tlvs
      /\ DOMAIN merged' = DOMAIN merged \cup Held(part)
      /\ \A t \in DOMAIN merged' :
            merged'[t] = IF t \in Held(part) THEN Mesh[Device][t] ELSE merged[t]
      /\ primes > 0 => AllIn(stack') = Tlvs
      /\ primes = 0 => AllIn(stack) = Range(Batch) \cup AllIn(stack')
    BY AnsweredEffect, Zenon
<1>2. Walking /\ primes \in Nat
    BY DEF Asking, WalkType
<1>3. Held(part) \subseteq DOMAIN Mesh[Device] /\ Held(part) \subseteq Range(Batch)
    BY DEF Held
<1>4. Of(merged', Device)
    <2>1. Of(merged, Device)
        BY <1>2 DEF DeviceInv
    <2>2. QED
        BY <1>1, <1>3, <2>1 DEF Of
<1>5. Range(Batch) \subseteq {"mac"} \cup Tlvs
    <2>1. CASE primes > 0
        BY <2>1, PrimerFits
    <2>2. CASE primes = 0
        BY <1>1, <1>2, <2>2 DEF DeviceInv
    <2>3. QED
        BY <1>2, <2>1, <2>2
<1>6. DOMAIN merged' \subseteq {"mac"} \cup Tlvs
    BY <1>1, <1>2, <1>3, <1>5 DEF DeviceInv
<1>7. AllIn(stack') \subseteq Tlvs
    BY <1>1, <1>2 DEF DeviceInv
<1>8. "mac" \in DOMAIN Mesh[Device] => "mac" \in DOMAIN merged'
    <2>1. CASE primes > 0
        BY <1>1, <2>1, PrimerFits DEF Held
    <2>2. CASE primes = 0
        BY <1>1, <1>2, <2>2 DEF DeviceInv
    <2>3. QED
        BY <1>2, <2>1, <2>2
<1>9. Of(merged, Device)'
    BY <1>1, <1>4 DEF Of
<1>10. QED
    BY <1>1, <1>6, <1>7, <1>8, <1>9 DEF DeviceInv

\* A full answer leaves nothing of the batch out.
LEMMA AnsweredLoss ==
    ASSUME WalkType, DeviceInv, LossInv, Asking, Device \in Reachable,
           Answered(Restrict(Mesh[Device], Held(Batch))), faults' = faults, status' = status
    PROVE  LossInv'
<1>1. /\ phase' = phase /\ primes' = 0 /\ Device' = Device /\ Tlvs' = Tlvs
      /\ DOMAIN merged' = DOMAIN merged \cup Held(Batch)
      /\ primes > 0 => AllIn(stack') = Tlvs
      /\ primes = 0 => AllIn(stack) = Range(Batch) \cup AllIn(stack')
    BY AnsweredEffect, Zenon
<1>2. Walking /\ primes \in Nat /\ faults.lost \in Nat
    BY DEF Asking, WalkType
<1>3. Obtainable' = Obtainable /\ Obtainable \subseteq Tlvs /\ Sound' = Sound
    BY <1>1 DEF Obtainable, Sound
<1>4. CASE primes > 0
    <2>1. Missed' = {}
        BY <1>1, <1>3, <1>4 DEF Missed
    <2>2. QED
        BY <1>1, <1>2, <2>1, FS_EmptySet DEF LossInv
<1>5. CASE primes = 0
    <2>1. Missed' \subseteq Missed
        <3>1. Obtainable \cap Range(Batch) \subseteq Held(Batch)
            BY DEF Held, Obtainable
        <3>2. QED
            BY <1>1, <1>3, <1>5, <3>1 DEF Missed
    <2>2. IsFiniteSet(Missed)
        BY TlvsKnown, FS_Subset DEF Missed, Obtainable, Tlvs
    <2>3. Cardinality(Missed') <= Cardinality(Missed) /\ Cardinality(Missed) \in Nat
          /\ Cardinality(Missed') \in Nat
        BY <2>1, <2>2, FS_Subset, FS_CardinalityType
    <2>4. QED
        BY <1>1, <1>2, <1>3, <1>5, <2>3 DEF LossInv
<1>6. QED
    BY <1>2, <1>4, <1>5

\* What a request without an answer changes: the primer is tried again, a batch
\* is split, or a single TLV is skipped.
LEMMA UnansweredEffect ==
    ASSUME WalkType, Asking, Unanswered, primes # 1
    PROVE  /\ phase' = phase /\ target' = target /\ goal' = goal /\ todo' = todo
           /\ nodes' = nodes /\ answers' = answers /\ leader' = leader /\ merged' = merged
           /\ Device' = Device /\ Tlvs' = Tlvs
           /\ primes' \in 0..PrimeAttempts /\ stack' \in Seq(Seq(Known))
           /\ primes > 0 => primes' = primes - 1 /\ primes' > 0 /\ stack' = stack
           /\ primes = 0 =>
                /\ primes' = 0
                /\ \/ AllIn(stack') = AllIn(stack)
                   \/ /\ AllIn(stack) = Range(Batch) \cup AllIn(stack')
                      /\ \E t \in Known : Range(Batch) \subseteq {t}
<1>1. /\ phase' = phase /\ target' = target /\ goal' = goal /\ todo' = todo
      /\ nodes' = nodes /\ answers' = answers /\ leader' = leader /\ merged' = merged
    BY DEF Unanswered
<1>2. Device' = Device /\ Tlvs' = Tlvs
    BY <1>1 DEF Device, Tlvs
<1>3. primes \in Nat /\ primes <= PrimeAttempts /\ PrimeAttempts \in Nat /\ stack \in Seq(Seq(Known))
    BY CollectorAssumption DEF WalkType
<1>4. CASE primes > 0
    <2>1. primes' = primes - 1 /\ stack' = stack
        BY <1>4 DEF Unanswered
    <2>2. primes' \in 0..PrimeAttempts /\ primes' > 0 /\ ~(primes = 0)
        BY <1>3, <1>4, <2>1
    <2>3. QED
        BY <1>1, <1>2, <1>3, <2>1, <2>2
<1>5. CASE primes = 0
    <2> DEFINE h == Head(stack)
               r == Tail(stack)
               b == IF Len(h) > 1 THEN Halves(h) ELSE <<>>
    <2>1. /\ stack # <<>> /\ stack' = b \o r /\ primes' = 0
          /\ Batch = h
        BY <1>5 DEF Unanswered, Asking, Batch
    <2>2. h \in Seq(Known) /\ r \in Seq(Seq(Known)) /\ AllIn(stack) = Range(h) \cup AllIn(r)
        BY <1>3, <2>1, AllInTail
    <2> HIDE DEF h, r
    <2>3. CASE Len(h) > 1
        <3>0. b = Halves(h)
            BY <2>3
        <3>1. b \in Seq(Seq(Known)) /\ AllIn(b) = Range(h)
            BY <2>2, <2>3, <3>0, HalvesOf
        <3> HIDE DEF b
        <3>2. stack' \in Seq(Seq(Known)) /\ AllIn(stack') = AllIn(stack)
            BY <2>1, <2>2, <3>1, AllInConcat
        <3>3. QED
            BY <1>1, <1>2, <1>3, <1>5, <2>1, <3>2
    <2>4. CASE ~(Len(h) > 1)
        <3>1. b = <<>> /\ <<>> \o r = r
            BY <2>2, <2>4
        <3>2. stack' = r
            BY <2>1, <3>1, Zenon
        <3>3. \E t \in Known : Range(h) \subseteq {t}
            <4>1. Len(h) \in Nat /\ DOMAIN h = 1..Len(h)
                BY <2>2
            <4>2. CASE Len(h) = 0
                <5>1. Range(h) = {}
                    BY <4>1, <4>2 DEF Range
                <5>2. QED
                    BY <5>1, TlvContents, Zenon DEF Known
            <4>3. CASE Len(h) = 1
                <5>1. DOMAIN h = {1} /\ h[1] \in Known
                    BY <2>2, <4>1, <4>3
                <5>2. QED
                    BY <5>1, Zenon DEF Range
            <4>4. QED
                BY <2>4, <4>1, <4>2, <4>3
        <3> HIDE DEF b
        <3>4. /\ primes' = 0 /\ stack' \in Seq(Seq(Known)) /\ AllIn(stack) = Range(Batch) \cup AllIn(stack')
              /\ \E t \in Known : Range(Batch) \subseteq {t}
            BY <2>1, <2>2, <3>2, <3>3, Zenon
        <3>5. primes' \in 0..PrimeAttempts /\ ~(primes > 0)
            BY <1>3, <1>5, <2>1
        <3>6. QED
            BY <1>1, <1>2, <3>4, <3>5, Zenon
    <2>5. QED
        BY <2>3, <2>4, Zenon
<1>6. QED
    BY <1>3, <1>4, <1>5

\* Nothing is forgotten of the device.
LEMMA UnansweredDevice ==
    ASSUME WalkType, DeviceInv, Asking, Unanswered, primes # 1
    PROVE  DeviceInv'
<1>1. /\ phase' = phase /\ merged' = merged /\ Device' = Device /\ Tlvs' = Tlvs
      /\ primes > 0 => primes' > 0 /\ stack' = stack
      /\ primes = 0 => primes' = 0 /\ AllIn(stack') \subseteq AllIn(stack)
    BY UnansweredEffect, Zenon
<1>2. Walking /\ primes \in Nat
    BY DEF Asking, WalkType
<1>3. (primes' > 0 => primes > 0) /\ (primes' = 0 => primes = 0)
    BY <1>1, <1>2
<1>4. AllIn(stack') \subseteq AllIn(stack)
    BY <1>1, <1>2
<1>5. Of(merged, Device)'
    BY <1>1, <1>2, Zenon DEF DeviceInv, Of
<1>6. QED
    BY <1>1, <1>2, <1>3, <1>4, <1>5, Zenon DEF DeviceInv

\* A TLV is only skipped if it does not fit or its answer was lost.
LEMMA UnansweredLoss ==
    ASSUME WalkType, DeviceInv, LossInv, Asking, Unanswered, primes # 1,
           status' = status, faults'.cut = faults.cut,
           \/ faults'.lost = faults.lost /\ (Device \in Reachable => ~Fits(Held(Batch)))
           \/ faults'.lost = faults.lost + 1
    PROVE  LossInv'
<1>1. /\ phase' = phase /\ merged' = merged /\ Device' = Device /\ Tlvs' = Tlvs
      /\ primes > 0 => primes' = primes - 1 /\ primes' > 0
      /\ primes = 0 =>
            /\ primes' = 0
            /\ \/ AllIn(stack') = AllIn(stack)
               \/ /\ AllIn(stack) = Range(Batch) \cup AllIn(stack')
                  /\ \E t \in Known : Range(Batch) \subseteq {t}
    BY UnansweredEffect, Zenon
<1>2. /\ Walking /\ primes \in Nat /\ faults.lost \in Nat /\ Sound' = Sound
      /\ PrimeAttempts \in Nat
    BY CollectorAssumption DEF Asking, WalkType, Sound
<1>3. Obtainable' = Obtainable
    BY <1>1, Zenon DEF Obtainable
<1>4. CASE primes > 0
    <2>1. faults'.lost = faults.lost => Device \notin Reachable
        BY <1>2, <1>4, PrimerFits
    <2>2. (primes' > 0 /\ ~(primes' = 0)) /\ primes' = primes - 1
        BY <1>1, <1>2, <1>4
    <2>3. ASSUME Sound', Device' \in Reachable PROVE PrimeAttempts <= primes' + faults'.lost
        <3>1. PrimeAttempts <= primes + faults.lost /\ faults'.lost = faults.lost + 1
            BY <1>1, <1>2, <1>4, <2>1, <2>3, Zenon DEF LossInv
        <3>2. QED
            BY <1>2, <2>2, <3>1
    <2>4. QED
        BY <2>2, <2>3, Zenon DEF LossInv
<1>5. CASE primes = 0
    <2>1. primes' = 0 /\ ~(primes' > 0) /\ Device \in Reachable
        BY <1>1, <1>2, <1>5 DEF DeviceInv
    <2>2. IsFiniteSet(Missed) /\ Cardinality(Missed) \in Nat
        BY TlvsKnown, FS_Subset, FS_CardinalityType, Zenon DEF Missed, Obtainable, Tlvs
    <2>3. CASE Missed' \subseteq Missed
        <3>1. Cardinality(Missed') <= Cardinality(Missed) /\ Cardinality(Missed') \in Nat
            BY <2>2, <2>3, FS_Subset, FS_CardinalityType, Zenon
        <3>2. QED
            BY <1>1, <1>2, <1>5, <2>1, <2>2, <3>1 DEF LossInv
    <2>4. CASE ~(Missed' \subseteq Missed)
        <3>1. AllIn(stack) = Range(Batch) \cup AllIn(stack') /\ AllIn(stack') # AllIn(stack)
            BY <1>1, <1>3, <1>5, <2>4, Zenon DEF Missed
        <3>2. PICK t \in Known : Range(Batch) \subseteq {t}
            BY <1>1, <1>5, <3>1, Zenon
        <3>3. Missed' \subseteq Missed \cup {t} /\ t \in Obtainable /\ t \in Range(Batch)
            BY <1>1, <1>3, <2>4, <3>1, <3>2, Zenon DEF Missed
        <3>4. Size[t] \in Nat
            BY <3>2, SizesAssumption, Zenon DEF Known
        <3>5. Fits(Held(Batch))
            <4>1. Held(Batch) \subseteq {t} /\ Size[t] <= Cap
                BY <3>2, <3>3, Zenon DEF Held, Obtainable
            <4>2. QED
                BY <3>4, <4>1, FitsOne, Zenon
        <3>6. faults'.lost = faults.lost + 1
            BY <2>1, <3>5, Zenon
        <3>7. IsFiniteSet(Missed \cup {t}) /\ Cardinality(Missed \cup {t}) <= Cardinality(Missed) + 1
              /\ Cardinality(Missed \cup {t}) \in Nat
            <4>1. /\ IsFiniteSet(Missed \cup {t})
                  /\ Cardinality(Missed \cup {t}) =
                        IF t \in Missed THEN Cardinality(Missed) ELSE Cardinality(Missed) + 1
                BY <2>2, FS_AddElement, Zenon
            <4>2. QED
                BY <2>2, <4>1
        <3>8. Cardinality(Missed') <= Cardinality(Missed \cup {t}) /\ Cardinality(Missed') \in Nat
            BY <3>3, <3>7, FS_Subset, FS_CardinalityType, Zenon
        <3>9. Sound => Cardinality(Missed) <= faults.lost
            BY <1>2, <1>5, Zenon DEF LossInv
        <3>10. Sound => Cardinality(Missed') <= faults'.lost
            <4> DEFINE x == Cardinality(Missed)
                       y == Cardinality(Missed \cup {t})
                       z == Cardinality(Missed')
                       l == faults.lost
            <4>1. x \in Nat /\ y \in Nat /\ z \in Nat /\ l \in Nat /\ z <= y /\ y <= x + 1
                BY <1>2, <2>2, <3>7, <3>8, Zenon
            <4>2. Sound => x <= l
                BY <3>9, Zenon
            <4> HIDE DEF x, y, z, l
            <4>3. Sound => z <= l + 1
                BY <4>1, <4>2
            <4>4. QED
                BY <3>6, <4>3, Zenon DEF z, l
        <3>11. QED
            BY <1>2, <2>1, <3>10, Zenon DEF LossInv
    <2>5. QED
        BY <2>3, <2>4, Zenon
<1>6. QED
    BY <1>2, <1>4, <1>5
=============================================================================
